---- MODULE Spec2Model ----
(***************************************************************************)
(* Payment reconciliation subsystem of the Telegram storefront bot:        *)
(* the ledger (payments, orders), the checkout that inserts them, the MTN  *)
(* webhook handler and the periodic reconciliation service.                *)
(*                                                                         *)
(* Every await of the TypeScript code is a point where other handlers may  *)
(* run, so each handler is cut into one action per await.  A ledger call   *)
(* may throw (database error); the *Throw actions model that.              *)
(***************************************************************************)
EXTENDS Integers, Sequences, FiniteSets, Bags, TLC

(* ------------------------------ bounds --------------------------------- *)
\* Number of checkouts (each creates order p and payment p).
NPayments == 2
\* Number of webhook requests that may be in flight at the same time.
NHandlers == 1
\* The clock saturates here (minutes since process start).
MaxTime == 30
\* Minutes the clock advances per Tick.
TickMinutes == 5
\* Session objects startCheckout creates at most, and the handlePhoneInput
\* calls that may be in flight at the same time.
MaxSessions == 2
MaxPhoneInputs == 2
\* Checkouts of the identity ledger that may be in flight together, the last
\* value Date.now() takes in it, and the keys generated at most.
NPlacements == 2
MaxDateNow == 1
MaxKeys == 2
\* Concurrent callers of createOrder, and the orders created at most.
NCallers == 2
MaxOrders == 4
\* Concurrent callers of getAuthToken, the last minute of the token clock, and
\* the tokens the provider issues at most.
NRequesters == 2
MaxTokenTime == 3
MaxTokens == 3
\* Collection requests the one chat sends at most.
MaxRequests == 2

(* -------------------------- program constants -------------------------- *)
\* (tokenData.expires_in - 300) * 1000: the token is refreshed 5 minutes early.
RefreshMarginMinutes == 5
\* getPaymentTimeoutMinutes(): RECONCILE_TIMEOUT_MINUTES || '10'
TimeoutMinutes == 10
\* cron expression '*/15 * * * *'
CronMinutes == 15

Payments == 1..NPayments
Handlers == 1..NHandlers
Sources == {"cron", "startup", "force"}

PaymentStatus == {"PENDING", "SUCCESS", "FAILED", "TIMEOUT"}
TerminalStatus == {"SUCCESS", "FAILED", "TIMEOUT"}
OrderStatus == {"PENDING", "PAID", "CANCELLED"}
\* Values of webhookData.status the handler may receive.
WebhookStatuses == {"SUCCESSFUL", "SUCCESS", "FAILED", "REJECTED", "PENDING", "UNKNOWN"}
\* What the provider's status endpoint can produce for one poll; "ERROR" is a
\* transport, HTTP (non-2xx) or token failure.
ProviderOutcomes == {"SUCCESSFUL", "FAILED", "PENDING", "ERROR"}

VARIABLES
    now,          \* wall clock, minutes since process start (saturating)
    cronClock,    \* minutes since the last cron boundary
    payStatus,    \* payments.status, "NONE" while the row does not exist
    ordStatus,    \* orders.status of the order owning payment p, "NONE" likewise
    createdAt,    \* payments.created_at
    provRef,      \* payments.provider_reference, 0 while the row does not exist
    orderId,      \* payments.order_id, 0 while the row does not exist
    collecting,   \* checkout: "requested" while initiateCollection is awaited,
                  \* "declined" once it has answered success: false, else "idle"
    co,           \* checkout: the order inserted whose payment is not yet, or 0
    wh,           \* webhook requests in flight
    isRunning,    \* ReconciliationService.isRunning
    rc,           \* reconciliation passes, one slot per trigger source
    startupDone,  \* the setTimeout(..., 5000) of start() has fired
    trigLog,      \* outcome of the latest trigger that left no pass of its own running:
                  \* a skipped cron tick, a rejected or a completed forced run;
                  \* cleared when a pass starts or a scheduled pass ends
    session,      \* checkoutSessions.get(chatId) of the one chat, NoSession without entry
    handling,     \* the text handler awaiting the checkout it started:
                  \* "session" (handlePhoneInput), "legacy" (handleTextMessage), or "none"
    statusReply,  \* the latest answer of GET /api/reconciliation/status
    lastRunAt,    \* observer: the latest time a pass was executing, -1 before the first
    call,         \* the latest call of a gateway client function: what it was given and what it did
    requested,    \* the number of collection requests the chat has sent to the provider
    received,     \* the latest text message of the chat that was handled, <<>> before the first
    dateNow,      \* Date.now() as the checkouts of the identity ledger read it
    placing,      \* the checkouts of the identity ledger in flight: chat and externalId of each
    paymentRows,  \* external_id and idempotency_key of the rows of payments (a bag)
    uuids,        \* the number of uuidv4() values generated by generateIdempotencyKey
    issuedKeys,   \* the keys generateIdempotencyKey has returned, in order
    creating,     \* the createOrder calls in flight: position and the number generated for each
    orderRows,    \* order_number of the rows of orders created today (a bag)
    cachedToken,  \* MTNMomoService.cachedToken, 0 for null
    tokenExpiry,  \* MTNMomoService.tokenExpiry in minutes, -1 for null
    auths,        \* the getAuthToken calls awaiting the provider
    tokensIssued, \* the number of tokens the provider has issued
    tokenReply,   \* what the latest getAuthToken call that returned gave to its caller
    afterRefresh, \* observer: refreshCredentials has completed and no token was requested since
    lastAuth,     \* observer: time and TTL of the latest successful authentication since the last refresh
    tally,        \* the counters processed, updated and timedOut of each pass, with what it has written
    report,       \* the report the latest pass to finish its loop has logged
    checkoutSessions,\* the entry of the chat in the checkoutSessions map: a session object and its step
    sessionsCreated,\* the number of session objects startCheckout has created
    phoneInputs,  \* the handlePhoneInput calls in flight, each with the session object it holds
    made          \* observer: the collection requests, orders and payments each session object has made

ledger == <<payStatus, ordStatus, createdAt, provRef, orderId>>
core == <<now, cronClock, payStatus, ordStatus, createdAt, provRef, orderId, collecting,
          co, wh, isRunning, rc, startupDone, trigLog>>
chatVars == <<session, handling, requested, received>>
statusVars == <<statusReply, lastRunAt>>
gwVars == <<call>>
idVars == <<dateNow, placing, paymentRows, uuids, issuedKeys>>
orderVars == <<creating, orderRows>>
tokenVars == <<cachedToken, tokenExpiry, auths, tokensIssued, tokenReply, afterRefresh, lastAuth>>
reportVars == <<tally, report>>
sessionVars == <<checkoutSessions, sessionsCreated, phoneInputs, made>>
\* What the checkout, webhook and reconciliation steps below leave alone.
aux == <<chatVars, statusVars, gwVars, idVars, orderVars, tokenVars, reportVars, sessionVars>>
vars == <<core, aux>>
\* What the steps of the chat, of the gateway client functions and of the
\* status route leave alone, the ledger and the services aside.
nonChat == <<statusVars, gwVars, idVars, orderVars, tokenVars, reportVars, sessionVars>>
nonGateway == <<chatVars, statusVars, idVars, orderVars, tokenVars, reportVars, sessionVars>>
nonStatus == <<chatVars, gwVars, idVars, orderVars, tokenVars, reportVars, sessionVars>>
nonIdentity == <<chatVars, statusVars, gwVars, orderVars, tokenVars, reportVars, sessionVars>>
nonOrders == <<chatVars, statusVars, gwVars, idVars, tokenVars, reportVars, sessionVars>>
nonToken == <<chatVars, statusVars, gwVars, idVars, orderVars, reportVars, sessionVars>>
nonReport == <<chatVars, statusVars, gwVars, idVars, orderVars, tokenVars, sessionVars>>
nonSession == <<statusVars, gwVars, idVars, orderVars, tokenVars, reportVars>>

Min(a, b) == IF a < b THEN a ELSE b

\* pay: the payment found; newStatus, orderStatus: the values computed from
\* webhookData.status; providerReference: webhookData.referenceId (0 when absent)
\* and, once the payment is found, the value the payment update writes;
\* externalId: webhookData.externalId (0 when absent); signature, payload: the
\* x-mtn-signature header and the body of the request as it arrived.
IdleHandler == [pc |-> "idle", pay |-> 0, newStatus |-> "NONE", orderStatus |-> "NONE",
                providerReference |-> 0, externalId |-> 0, signature |-> <<>>,
                payload |-> <<>>]
\* pending: the batch fetched; idx: loop position; new: the status the branch
\* taken writes; errAt: position of the latest payment whose processing threw
\* (the console.error of the inner catch); transportErr: the poll of the
\* current payment failed in checkPaymentStatus (its console.error).
IdlePass == [pc |-> "idle", pending |-> <<>>, idx |-> 0, new |-> "NONE",
             errAt |-> 0, transportErr |-> FALSE]

\* let processed = 0; let updated = 0; let timedOut = 0; with them, what the
\* pass has written so far: setTimeout payments set to TIMEOUT, setResult
\* payments set to SUCCESS or FAILED.
ZeroTally == [processed |-> 0, updated |-> 0, timedOut |-> 0, setTimeout |-> 0, setResult |-> 0]

\* No pass has logged its report yet.
NoReport == [logged |-> FALSE]

\* The session objects startCheckout creates, and the handlePhoneInput calls
\* that may be in flight together.
SessionIds == 1..MaxSessions
PhoneInputs == 1..MaxPhoneInputs

\* checkoutSessions.get(chatId) === undefined
NoEntry == [id |-> 0, step |-> "none"]

\* No handlePhoneInput call in this slot.
NoPhoneInput == [pc |-> "idle", id |-> 0]

NothingMade == [requests |-> 0, orders |-> 0, payments |-> 0]

\* checkoutSessions has no entry for the chat.
NoSession == [step |-> "none", deliveryAddress |-> <<>>, phoneNumber |-> <<>>]

\* The checkouts the identity ledger follows, and the chats they come from.
Placements == 1..NPlacements
ChatIds == {1, 2}

\* No checkout in flight.
NoPlacement == [pc |-> "idle", chatId |-> 0, externalId |-> <<>>]

\* The concurrent callers of createOrder.
Callers == 1..NCallers

\* No createOrder call in flight.
NoCreate == [pc |-> "idle", orderNumber |-> <<>>]

\* The concurrent callers of getAuthToken.
Requesters == 1..NRequesters

\* No getAuthToken call has returned yet; no authentication has succeeded.
NoToken == [to |-> 0, threw |-> FALSE, token |-> 0]
NoAuth == [at |-> -1, ttl |-> 0]

\* No gateway function has been called yet.
NoCall == [fn |-> "none"]

\* No status query has been answered yet.
NoReply == [asked |-> FALSE, isRunning |-> FALSE, lastRun |-> -1]

Init ==
    /\ now = 0
    /\ cronClock = 0
    /\ payStatus = [p \in Payments |-> "NONE"]
    /\ ordStatus = [p \in Payments |-> "NONE"]
    /\ createdAt = [p \in Payments |-> 0]
    /\ provRef = [p \in Payments |-> 0]
    /\ orderId = [p \in Payments |-> 0]
    /\ collecting = "idle"
    /\ co = 0
    /\ wh = [h \in Handlers |-> IdleHandler]
    /\ isRunning = FALSE
    /\ rc = [t \in Sources |-> IdlePass]
    /\ startupDone = FALSE
    /\ trigLog = "none"
    /\ session = NoSession
    /\ handling = "none"
    /\ statusReply = NoReply
    /\ lastRunAt = -1
    /\ call = NoCall
    /\ requested = 0
    /\ received = <<>>
    /\ dateNow = 0
    /\ placing = [k \in Placements |-> NoPlacement]
    /\ paymentRows = EmptyBag
    /\ uuids = 0
    /\ issuedKeys = <<>>
    /\ creating = [c \in Callers |-> NoCreate]
    /\ orderRows = EmptyBag
    /\ cachedToken = 0
    /\ tokenExpiry = -1
    /\ auths = [r \in Requesters |-> "idle"]
    /\ tokensIssued = 0
    /\ tokenReply = NoToken
    /\ afterRefresh = FALSE
    /\ lastAuth = NoAuth
    /\ tally = [t \in Sources |-> ZeroTally]
    /\ report = NoReport
    /\ checkoutSessions = NoEntry
    /\ sessionsCreated = 0
    /\ phoneInputs = [k \in PhoneInputs |-> NoPhoneInput]
    /\ made = [i \in SessionIds |-> NothingMade]

(* ------------------------------ ledger --------------------------------- *)
\* updatePayment(id, {status}): unconditional UPDATE ... WHERE id = $id
UpdatePayment(p, s) == payStatus' = [payStatus EXCEPT ![p] = s]

\* updateOrder(id, {status}): unconditional UPDATE ... WHERE id = $id
UpdateOrder(o, s) == ordStatus' = [ordStatus EXCEPT ![o] = s]

\* Faulty variant: the query without its WHERE clause.
GetPaymentsUnfiltered ==
    LET S == {p \in Payments : payStatus[p] # "NONE"}
    IN {s \in [1..Cardinality(S) -> S] : \A i, j \in 1..Cardinality(S) : i # j => s[i] # s[j]}

\* getPendingPayments(): SELECT * FROM payments WHERE status = 'PENDING', with no
\* ORDER BY: the rows come back in any order.  The set of possible results.
GetPendingPayments ==
    LET S == {p \in Payments : payStatus[p] = "PENDING"}
    IN {s \in [1..Cardinality(S) -> S] : \A i, j \in 1..Cardinality(S) : i # j => s[i] # s[j]}

(* ------------------------------ checkout ------------------------------- *)
\* processPaymentWithAddress / processPayment: initiateCollection first; only
\* when it answers success, storage.createOrder, then storage.createPayment.
NextSlot == CHOOSE p \in Payments : ordStatus[p] = "NONE" /\ \A q \in Payments : q < p => ordStatus[q] # "NONE"

\* Checkouts happen while the clock still has timeout + one cron interval to
\* run before it saturates, so that the age of every payment reaches that far.
CheckoutInTime == now + TimeoutMinutes + CronMinutes <= MaxTime

\* referenceId = uuidv4() of the collection request of checkout p.
ProviderReference(p) == p

\* externalId = `ecom_${Date.now()}_${chatId}` of checkout p, stored with payment p.
ExternalId(p) == p

\* Faulty variant: every payment is attached to the first order.
PaymentOrderIdFirst == CHOOSE o \in Payments : \A q \in Payments : o <= q

\* orderId: order.id, the order the checkout has just inserted.
PaymentOrderId == co

\* await mtnMomoService.initiateCollection(...) is issued.
InitiateCollection ==
    /\ co = 0
    /\ collecting = "idle"
    /\ \E p \in Payments : ordStatus[p] = "NONE"
    /\ CheckoutInTime
    /\ collecting' = "requested"
    /\ UNCHANGED <<now, cronClock, ledger, co, wh, isRunning, rc, startupDone, trigLog>>

CheckoutInitiate == InitiateCollection /\ UNCHANGED aux

\* Faulty variant: order and payment are inserted before the collection
\* request, so that a declined request leaves both PENDING.
CollectionFailedAfterInsert ==
    /\ collecting = "requested"
    /\ collecting' = "declined"
    /\ ordStatus' = [ordStatus EXCEPT ![NextSlot] = "PENDING"]
    /\ payStatus' = [payStatus EXCEPT ![NextSlot] = "PENDING"]
    /\ createdAt' = [createdAt EXCEPT ![NextSlot] = now]
    /\ provRef' = [provRef EXCEPT ![NextSlot] = ProviderReference(NextSlot)]
    /\ orderId' = [orderId EXCEPT ![NextSlot] = NextSlot]
    /\ UNCHANGED <<now, cronClock, co, wh, isRunning, rc, startupDone, trigLog>>
    /\ UNCHANGED aux

\* initiateCollection answers { success: false } (the provider did not answer
\* 202, or a token, validation or transport error was caught): the else
\* branch is taken, with no order and no payment inserted.
CheckoutCollectionFailed ==
    /\ collecting = "requested"
    /\ collecting' = "declined"
    /\ UNCHANGED <<now, cronClock, ledger, co, wh, isRunning, rc, startupDone, trigLog>>
    /\ UNCHANGED aux

\* The else branch has sent "Payment initiation failed. Please try again.":
\* the checkout is over.
CheckoutDeclined ==
    /\ collecting = "declined"
    /\ collecting' = "idle"
    /\ UNCHANGED <<now, cronClock, ledger, co, wh, isRunning, rc, startupDone, trigLog>>
    /\ UNCHANGED aux

\* initiateCollection answers { success: true } and createOrder inserts the order.
CheckoutCreateOrder ==
    /\ co = 0
    /\ collecting = "requested"
    /\ \E p \in Payments : ordStatus[p] = "NONE"
    /\ CheckoutInTime
    /\ ordStatus' = [ordStatus EXCEPT ![NextSlot] = "PENDING"]
    /\ co' = NextSlot
    /\ collecting' = "idle"
    /\ UNCHANGED <<now, cronClock, payStatus, createdAt, provRef, orderId, wh, isRunning,
                   rc, startupDone, trigLog>>
    /\ UNCHANGED aux

\* createOrder throws: the catch tells the customer and the checkout ends.
CheckoutCreateOrderThrow ==
    /\ co = 0
    /\ collecting = "requested"
    /\ collecting' = "idle"
    /\ UNCHANGED <<now, cronClock, ledger, co, wh, isRunning, rc, startupDone, trigLog>>
    /\ UNCHANGED aux

CheckoutCreatePaymentOk ==
    /\ co # 0
    /\ CheckoutInTime
    /\ payStatus' = [payStatus EXCEPT ![co] = "PENDING"]
    /\ createdAt' = [createdAt EXCEPT ![co] = now]
    /\ provRef' = [provRef EXCEPT ![co] = ProviderReference(co)]
    /\ orderId' = [orderId EXCEPT ![co] = PaymentOrderId]
    /\ co' = 0
    /\ UNCHANGED <<now, cronClock, ordStatus, collecting, wh, isRunning, rc,
                   startupDone, trigLog>>
    /\ UNCHANGED aux

CheckoutCreatePaymentThrow ==
    /\ co # 0
    /\ co' = 0
    /\ UNCHANGED <<now, cronClock, ledger, collecting, wh, isRunning, rc, startupDone,
                   trigLog>>
    /\ UNCHANGED aux

(* --------------------------- webhook handler --------------------------- *)
\* let newStatus = 'PENDING'; if SUCCESSFUL|SUCCESS ... else if FAILED|REJECTED ...
WebhookNewStatus(st) ==
    IF st \in {"SUCCESSFUL", "SUCCESS"} THEN "SUCCESS"
    ELSE IF st \in {"FAILED", "REJECTED"} THEN "FAILED"
    ELSE "PENDING"

WebhookOrderStatus(st) ==
    IF st \in {"SUCCESSFUL", "SUCCESS"} THEN "PAID"
    ELSE IF st \in {"FAILED", "REJECTED"} THEN "CANCELLED"
    ELSE "PENDING"

\* The secret configured as MTN_CALLBACK_SECRET.
CallbackSecret == 1

\* Keys a sender may sign with: 0 stands for a request without the signature
\* header, CallbackSecret is the configured key, 2 is any other key.
SignatureKeys == 0..2

\* webhookData.referenceId and webhookData.externalId: 0 when the field is
\* absent, NPayments + 1 is a value no checkout generated.
NotificationIds == 0..(NPayments + 1)

\* Text of hexadecimal digits, as digest('hex') writes it.
HexChars == <<"0", "1", "2", "3", "4", "5", "6", "7", "8", "9", "a", "b", "c", "d", "e", "f">>

UpperHexChars == <<"0", "1", "2", "3", "4", "5", "6", "7", "8", "9", "A", "B", "C", "D", "E", "F">>

HexCharSet == {HexChars[i] : i \in 1..Len(HexChars)} \cup {UpperHexChars[i] : i \in 1..Len(HexChars)}

IsHexChar(c) == c \in HexCharSet

\* The value of each hex digit, in either case.
HexValueOf ==
    [c \in HexCharSet |->
        (CHOOSE i \in 1..Len(HexChars) : c \in {HexChars[i], UpperHexChars[i]}) - 1]

HexValue(c) == HexValueOf[c]

\* The bytes of the request body: referenceId, externalId and status.
PayloadBytes(payload) ==
    <<payload[1], payload[2],
      CASE payload[3] = "SUCCESSFUL" -> 1 [] payload[3] = "SUCCESS" -> 2
        [] payload[3] = "FAILED" -> 3 [] payload[3] = "REJECTED" -> 4
        [] payload[3] = "PENDING" -> 5 [] OTHER -> 6>>

\* The digest: a byte sequence of fixed length that differs whenever the key
\* or the payload differs.
HmacBytes(key, payload) ==
    LET b == PayloadBytes(payload)
    IN <<160 + key, 16 * b[1] + b[2], 176 + b[3]>>

\* Two hex digits for each byte.
HexEncode(bytes) ==
    [i \in 1..(2 * Len(bytes)) |->
        IF i % 2 = 1 THEN HexChars[(bytes[(i + 1) \div 2] \div 16) + 1]
        ELSE HexChars[(bytes[i \div 2] % 16) + 1]]

\* Buffer.from(text, 'hex'): pairs of hex digits, in either case, are decoded
\* until the text ends, a single character is left, or a pair is not hex.
HexDecode(text) ==
    LET Pairs == {n \in 0..(Len(text) \div 2) : \A i \in 1..(2 * n) : IsHexChar(text[i])}
        n == CHOOSE m \in Pairs : \A k \in Pairs : k <= m
    IN [i \in 1..n |-> 16 * HexValue(text[2 * i - 1]) + HexValue(text[2 * i])]

\* crypto.createHmac('sha256', key).update(payload).digest('hex')
Hmac(key, payload) == HexEncode(HmacBytes(key, payload))

\* The x-mtn-signature header of a request signed with key.
Signature(key, payload) == IF key = 0 THEN <<>> ELSE Hmac(key, payload)

\* crypto.timingSafeEqual(a, b): throws when the lengths differ.
TimingSafeEqual(a, b) ==
    IF Len(a) # Len(b) THEN [threw |-> TRUE, value |-> FALSE]
    ELSE [threw |-> FALSE, value |-> a = b]

\* validateWebhookSignature with this.callbackSecret = secret: false without
\* signature or secret; else both hex texts are decoded and compared, and a
\* throw of the comparison is caught and answered false.
ValidateWith(secret, payload, signature) ==
    IF signature = <<>> \/ secret = 0 THEN FALSE
    ELSE LET r == TimingSafeEqual(HexDecode(signature), HexDecode(Hmac(secret, payload)))
         IN IF r.threw THEN FALSE ELSE r.value

\* Faulty variant: any signature that is present is accepted.
ValidateAnySignature(payload, signature) == signature # <<>>

\* validateWebhookSignature(payload, signature) of the running service.
ValidateWebhookSignature(payload, signature) ==
    ValidateWith(CallbackSecret, payload, signature)

\* Faulty variant: a request without signature header is refused as well.
SignatureRequired(payload, signature) == ~ValidateWebhookSignature(payload, signature)

\* if (signature && !mtnMomoService.validateWebhookSignature(payload, signature))
SignatureRejected(payload, signature) ==
    signature # <<>> /\ ~ValidateWebhookSignature(payload, signature)

\* Faulty variant: the lookup takes whatever payment is stored.
FindAnyStored(referenceId) == {p \in Payments : payStatus[p] # "NONE"}

\* payments.find(p => p.providerReference === webhookData.referenceId)
FindByReference(referenceId) ==
    {p \in Payments : payStatus[p] # "NONE" /\ provRef[p] = referenceId}

\* payments.find(p => p.externalId === webhookData.externalId)
FindByExternalId(externalId) ==
    {p \in Payments : payStatus[p] # "NONE" /\ ExternalId(p) = externalId}

\* find() returns the first match of getAllPayments(), which orders by
\* createdAt descending: the payment inserted last.
FirstMatch(S) == CHOOSE p \in S : \A q \in S : q <= p

\* Faulty variant: a payment older than the timeout is no longer found.
FoundWithinTimeout(r, p) ==
    IF now - createdAt[p] > TimeoutMinutes
    THEN [IdleHandler EXCEPT !.pc = "sent404"]
    ELSE [r EXCEPT !.pc = "updPay", !.pay = p,
                   !.providerReference = IF r.providerReference # 0 THEN r.providerReference
                                         ELSE provRef[p]]

\* The handler has found payment p: newStatus and orderStatus are already in
\* the record; the update will write webhookData.referenceId ||
\* payment.providerReference.
Found(r, p) ==
    [r EXCEPT !.pc = "updPay", !.pay = p,
              !.providerReference = IF r.providerReference # 0 THEN r.providerReference
                                    ELSE provRef[p]]

\* A request arrives: the signature test, then the first lookup is issued.
WebhookRequest(h, key, referenceId, externalId, st) ==
    /\ wh[h].pc = "idle"
    /\ LET payload == <<referenceId, externalId, st>>
           signature == Signature(key, payload)
           arrived == [IdleHandler EXCEPT !.signature = signature, !.payload = payload]
           req == [arrived EXCEPT !.newStatus = WebhookNewStatus(st),
                                  !.orderStatus = WebhookOrderStatus(st),
                                  !.providerReference = referenceId,
                                  !.externalId = externalId]
       IN wh' = [wh EXCEPT ![h] =
                    IF SignatureRejected(payload, signature)
                    THEN [arrived EXCEPT !.pc = "sent401"]
                    ELSE IF referenceId # 0 THEN [req EXCEPT !.pc = "byRef"]
                    ELSE IF externalId # 0 THEN [req EXCEPT !.pc = "byExt"]
                    ELSE [arrived EXCEPT !.pc = "sent404"]]
    /\ UNCHANGED <<now, cronClock, ledger, collecting, co, isRunning, rc, startupDone,
                   trigLog>>
    /\ UNCHANGED aux

\* Faulty variant: the external id is tried before the provider reference.
WebhookFindByExternalIdFirst(h) ==
    /\ wh[h].pc = "byRef"
    /\ LET S == FindByReference(wh[h].providerReference)
           E == IF wh[h].externalId # 0 THEN FindByExternalId(wh[h].externalId) ELSE {}
       IN wh' = [wh EXCEPT ![h] =
                    IF E # {} THEN Found(wh[h], FirstMatch(E))
                    ELSE IF S # {} THEN Found(wh[h], FirstMatch(S))
                    ELSE [IdleHandler EXCEPT !.pc = "sent404"]]
    /\ UNCHANGED <<now, cronClock, ledger, collecting, co, isRunning, rc, startupDone,
                   trigLog>>
    /\ UNCHANGED aux

\* The lookup by webhookData.referenceId resolves.
WebhookFindByReference(h) ==
    /\ wh[h].pc = "byRef"
    /\ LET S == FindByReference(wh[h].providerReference)
       IN wh' = [wh EXCEPT ![h] =
                    IF S # {} THEN Found(wh[h], FirstMatch(S))
                    ELSE IF wh[h].externalId # 0 THEN [wh[h] EXCEPT !.pc = "byExt"]
                    ELSE [IdleHandler EXCEPT !.pc = "sent404"]]
    /\ UNCHANGED <<now, cronClock, ledger, collecting, co, isRunning, rc, startupDone,
                   trigLog>>
    /\ UNCHANGED aux

\* The lookup by webhookData.externalId resolves.
WebhookFindByExternalId(h) ==
    /\ wh[h].pc = "byExt"
    /\ LET S == FindByExternalId(wh[h].externalId)
       IN wh' = [wh EXCEPT ![h] =
                    IF S # {} THEN Found(wh[h], FirstMatch(S))
                    ELSE [IdleHandler EXCEPT !.pc = "sent404"]]
    /\ UNCHANGED <<now, cronClock, ledger, collecting, co, isRunning, rc, startupDone,
                   trigLog>>
    /\ UNCHANGED aux

\* The 401 or 404 answer has been sent; the request is over.
WebhookDone(h) ==
    /\ wh[h].pc \in {"sent401", "sent404"}
    /\ wh' = [wh EXCEPT ![h] = IdleHandler]
    /\ UNCHANGED <<now, cronClock, ledger, collecting, co, isRunning, rc, startupDone,
                   trigLog>>
    /\ UNCHANGED aux

\* A request without signature, or validly signed, carrying the stored
\* provider reference of payment p: the lookup by reference has found p;
\* newStatus and orderStatus are computed and storage.updatePayment is issued.
WebhookReceive(h, p, st) ==
    /\ wh[h].pc = "idle"
    /\ payStatus[p] # "NONE"
    /\ wh' = [wh EXCEPT ![h] = [pc |-> "updPay", pay |-> p,
                                newStatus |-> WebhookNewStatus(st),
                                orderStatus |-> WebhookOrderStatus(st),
                                providerReference |-> provRef[p],
                                externalId |-> 0]]
    /\ UNCHANGED <<now, cronClock, ledger, collecting, co, isRunning, rc, startupDone,
                   trigLog>>
    /\ UNCHANGED aux

WebhookUpdatePaymentOk(h) ==
    /\ wh[h].pc = "updPay"
    /\ UpdatePayment(wh[h].pay, wh[h].newStatus)
    /\ provRef' = [provRef EXCEPT ![wh[h].pay] = wh[h].providerReference]
    /\ wh' = [wh EXCEPT ![h].pc = "updOrd"]
    /\ UNCHANGED <<now, cronClock, ordStatus, createdAt, orderId, collecting, co, isRunning,
                   rc, startupDone, trigLog>>
    /\ UNCHANGED aux

WebhookUpdateOrderOk(h) ==
    /\ wh[h].pc = "updOrd"
    /\ UpdateOrder(orderId[wh[h].pay], wh[h].orderStatus)
    /\ wh' = [wh EXCEPT ![h] = IdleHandler]
    /\ UNCHANGED <<now, cronClock, payStatus, createdAt, provRef, orderId, collecting, co,
                   isRunning, rc, startupDone, trigLog>>
    /\ UNCHANGED aux

\* catch (error) { res.status(500) }: the handler stops where the ledger threw.
WebhookThrow(h) ==
    /\ wh[h].pc \in {"byRef", "byExt", "updPay", "updOrd"}
    /\ wh' = [wh EXCEPT ![h] = IdleHandler]
    /\ UNCHANGED <<now, cronClock, ledger, collecting, co, isRunning, rc, startupDone,
                   trigLog>>
    /\ UNCHANGED aux

(* ------------------------ payment gateway client ----------------------- *)
\* checkPaymentStatus: the provider's status when the poll succeeds; any
\* failure is caught and returned as { status: 'FAILED', reason: ... }.
CheckPaymentStatus(outcome) == IF outcome = "ERROR" THEN "FAILED" ELSE outcome

(* ------------------------ reconciliation service ----------------------- *)
\* cron callback: if (this.isRunning) { log 'skipping'; return; }
CronGuard == isRunning

\* Faulty variant: runReconciliation without its re-entrancy test.
RunGuardMissing == FALSE

\* runReconciliation: if (this.isRunning) return;
RunGuard == isRunning

\* Faulty variant: forceReconciliation relying on runReconciliation's guard alone.
ForceGuardMissing == FALSE

\* forceReconciliation: if (this.isRunning) return { success: false, ... };
ForceGuard == isRunning

\* The cron expression fires when the wall clock crosses a multiple of 15 min.
CronDue == cronClock + TickMinutes >= CronMinutes

\* Faulty variant: the comparison of the age with the timeout reversed.
PassTimedOutReversed(p) == now - createdAt[p] < TimeoutMinutes

\* paymentAge = Date.now() - payment.createdAt; paymentAge > timeoutMs
PassTimedOut(p) == now - createdAt[p] > TimeoutMinutes

\* statusResult.status === 'SUCCESSFUL' ... else if === 'FAILED' ...: the payment
\* status the branch taken writes, "NONE" when no branch is taken.
PassNewStatus(status) ==
    IF status = "SUCCESSFUL" THEN "SUCCESS"
    ELSE IF status = "FAILED" THEN "FAILED"
    ELSE "NONE"

\* Faulty variant: every branch cancels the order.
PassOrderStatusCancels(new) == "CANCELLED"

\* The order status each branch of the loop writes after the payment status.
PassOrderStatus(new) == IF new = "SUCCESS" THEN "PAID" ELSE "CANCELLED"

\* The payment the pass in slot t is working on.
CurPayment(t) == rc[t].pending[rc[t].idx]

\* runReconciliation past its guard: isRunning = true, getPendingPayments issued.
StartPass(t) ==
    /\ rc[t].pc = "idle"
    /\ isRunning' = TRUE
    /\ rc' = [rc EXCEPT ![t] = [IdlePass EXCEPT !.pc = "fetch"]]
    /\ trigLog' = "none"

\* Faulty variant: the pass ends without releasing the guard.
FinallyKeepsGuard(t) ==
    /\ isRunning' = TRUE
    /\ rc' = [rc EXCEPT ![t] = IdlePass]
    /\ trigLog' = IF t = "force" THEN "force_success" ELSE "none"

\* finally { this.isRunning = false }; a forced run then answers success.
Finally(t) ==
    /\ isRunning' = FALSE
    /\ rc' = [rc EXCEPT ![t] = IdlePass]
    /\ trigLog' = IF t = "force" THEN "force_success" ELSE "none"

\* The cron callback, run by the clock when the schedule is due.
CronCallback ==
    IF CronGuard
    THEN trigLog' = "cron_skipped" /\ UNCHANGED <<isRunning, rc>>
    ELSE IF RunGuard
         THEN UNCHANGED <<isRunning, rc, trigLog>>
         ELSE StartPass("cron")

\* Time passes; the scheduler fires the cron callback when it is due.  The
\* startup run (5 s after start) comes before the first tick.
TickBody ==
    /\ startupDone
    /\ now' = Min(now + TickMinutes, MaxTime)
    /\ cronClock' = (cronClock + TickMinutes) % CronMinutes
    /\ IF CronDue THEN CronCallback ELSE UNCHANGED <<isRunning, rc, trigLog>>
    /\ UNCHANGED <<ledger, collecting, co, wh, startupDone>>

Tick == TickBody /\ UNCHANGED aux

\* setTimeout(() => this.runReconciliation(), 5000)
StartupRunBody ==
    /\ ~startupDone
    /\ startupDone' = TRUE
    /\ IF RunGuard THEN UNCHANGED <<isRunning, rc, trigLog>> ELSE StartPass("startup")
    /\ UNCHANGED <<now, cronClock, ledger, collecting, co, wh>>

StartupRun == StartupRunBody /\ UNCHANGED aux

\* POST /api/reconciliation/force -> forceReconciliation()
ForceReconciliationBody ==
    /\ IF ForceGuard
       THEN trigLog' = "force_rejected" /\ UNCHANGED <<isRunning, rc>>
       ELSE IF RunGuard
            THEN trigLog' = "force_success" /\ UNCHANGED <<isRunning, rc>>
            ELSE StartPass("force")
    /\ UNCHANGED <<now, cronClock, ledger, collecting, co, wh, startupDone>>

ForceReconciliation == ForceReconciliationBody /\ UNCHANGED aux

\* await storage.getPendingPayments() resolves.
PassFetchOkBody(t) ==
    /\ rc[t].pc = "fetch"
    /\ \E pendingPayments \in GetPendingPayments :
          rc' = [rc EXCEPT ![t].pc = "check", ![t].pending = pendingPayments, ![t].idx = 1]
    /\ UNCHANGED <<now, cronClock, ledger, collecting, co, wh, isRunning, startupDone, trigLog>>

PassFetchOk(t) == PassFetchOkBody(t) /\ UNCHANGED aux

\* getPendingPayments throws: outer catch, then finally.
PassFetchThrowBody(t) ==
    /\ rc[t].pc = "fetch"
    /\ Finally(t)
    /\ UNCHANGED <<now, cronClock, ledger, collecting, co, wh, startupDone>>

\* Faulty variant: the outer catch without the finally block.
PassFetchThrowKeepsGuard(t) ==
    /\ rc[t].pc = "fetch"
    /\ rc' = [rc EXCEPT ![t] = IdlePass]
    /\ UNCHANGED <<now, cronClock, ledger, collecting, co, wh, isRunning, startupDone, trigLog>>
    /\ UNCHANGED aux

PassFetchThrow(t) == PassFetchThrowBody(t) /\ UNCHANGED aux

\* Head of the for loop: the loop ends, or the next payment is either timed
\* out (updatePayment TIMEOUT is issued) or polled (checkPaymentStatus issued).
\* payment.providerReference is truthy for every stored payment: checkout
\* stores the uuid initiateCollection generated, and the webhook handler only
\* replaces it by a truthy referenceId.
PassCheckBody(t) ==
    /\ rc[t].pc = "check"
    /\ IF rc[t].idx > Len(rc[t].pending)
       THEN Finally(t)
       ELSE /\ rc' = IF PassTimedOut(CurPayment(t))
                     THEN [rc EXCEPT ![t].pc = "updPay", ![t].new = "TIMEOUT",
                                     ![t].transportErr = FALSE]
                     ELSE [rc EXCEPT ![t].pc = "poll", ![t].new = "NONE",
                                     ![t].transportErr = FALSE]
            /\ UNCHANGED <<isRunning, trigLog>>
    /\ UNCHANGED <<now, cronClock, ledger, collecting, co, wh, startupDone>>

PassCheck(t) == PassCheckBody(t) /\ UNCHANGED aux

\* await mtnMomoService.checkPaymentStatus(...) resolves with statusResult.
PassPollBody(t, outcome) ==
    /\ rc[t].pc = "poll"
    /\ LET new == PassNewStatus(CheckPaymentStatus(outcome)) IN
       rc' = IF new # "NONE"
             THEN [rc EXCEPT ![t].pc = "updPay", ![t].new = new,
                             ![t].transportErr = (outcome = "ERROR")]
             ELSE [rc EXCEPT ![t].pc = "check", ![t].idx = @ + 1]
    /\ UNCHANGED <<now, cronClock, ledger, collecting, co, wh, isRunning, startupDone, trigLog>>

PassPoll(t, outcome) == PassPollBody(t, outcome) /\ UNCHANGED aux

PassUpdatePaymentOkBody(t) ==
    /\ rc[t].pc = "updPay"
    /\ UpdatePayment(CurPayment(t), rc[t].new)
    /\ rc' = [rc EXCEPT ![t].pc = "updOrd"]
    /\ UNCHANGED <<now, cronClock, ordStatus, createdAt, provRef, orderId, collecting, co, wh, isRunning, startupDone,
                   trigLog>>

PassUpdatePaymentOk(t) == PassUpdatePaymentOkBody(t) /\ UNCHANGED aux

PassUpdateOrderOkBody(t) ==
    /\ rc[t].pc = "updOrd"
    /\ UpdateOrder(orderId[CurPayment(t)], PassOrderStatus(rc[t].new))
    /\ rc' = [rc EXCEPT ![t].pc = "check", ![t].idx = @ + 1, ![t].new = "NONE",
                       ![t].transportErr = FALSE]
    /\ UNCHANGED <<now, cronClock, payStatus, createdAt, provRef, orderId, collecting, co, wh,
                   isRunning,
                   startupDone, trigLog>>

PassUpdateOrderOk(t) == PassUpdateOrderOkBody(t) /\ UNCHANGED aux

\* Faulty variant: the try/catch around the whole loop, so that a throw ends it.
AbortBatch(r) ==
    [r EXCEPT !.pc = "check", !.errAt = r.idx, !.idx = Len(r.pending) + 1, !.new = "NONE",
              !.transportErr = FALSE]

\* catch (error) { console.error(`Error reconciling payment ...`) }: the loop
\* goes on with the next payment.
AfterPaymentError(r) ==
    [r EXCEPT !.pc = "check", !.errAt = r.idx, !.idx = r.idx + 1, !.new = "NONE",
              !.transportErr = FALSE]

PassThrowBody(t) ==
    /\ rc[t].pc \in {"updPay", "updOrd"}
    /\ rc' = [rc EXCEPT ![t] = AfterPaymentError(rc[t])]
    /\ UNCHANGED <<now, cronClock, ledger, collecting, co, wh, isRunning, startupDone, trigLog>>

PassThrow(t) == PassThrowBody(t) /\ UNCHANGED aux

(* --------------------- gateway client: pure functions ------------------ *)
\* Text is a sequence of one-character strings.
DigitChars == {"0", "1", "2", "3", "4", "5", "6", "7", "8", "9"}

\* \d{9}: the digits after the prefix.
SubscriberDigits == 9

InternationalPrefix == <<"+", "2", "3", "3">>

NationalPrefix == <<"0">>

StartsWith(s, prefix) ==
    Len(s) >= Len(prefix) /\ SubSeq(s, 1, Len(prefix)) = prefix

\* The text after the first n characters.
Substring(s, n) == SubSeq(s, n + 1, Len(s))

AllDigits(s) == \A i \in 1..Len(s) : s[i] \in DigitChars

\* Faulty variant: the pattern without its $ anchor.
PhoneRegexUnanchored(s) ==
    \E prefix \in {InternationalPrefix, NationalPrefix} :
        /\ StartsWith(s, prefix)
        /\ Len(s) >= Len(prefix) + SubscriberDigits
        /\ AllDigits(SubSeq(s, Len(prefix) + 1, Len(prefix) + SubscriberDigits))

\* /^(?:\+233|0)(\d{9})$/ matches s.
PhoneRegex(s) ==
    \E prefix \in {InternationalPrefix, NationalPrefix} :
        /\ StartsWith(s, prefix)
        /\ Len(s) = Len(prefix) + SubscriberDigits
        /\ AllDigits(Substring(s, Len(prefix)))

\* match[1]: the nine digits captured.
PhoneRegexGroup(s) ==
    IF StartsWith(s, InternationalPrefix) THEN Substring(s, Len(InternationalPrefix))
    ELSE Substring(s, Len(NationalPrefix))

\* formatPhoneNumber(phone): throws without match, else `+233${match[1]}`.
FormatPhoneNumber(phone) ==
    IF ~PhoneRegex(phone) THEN [threw |-> TRUE, value |-> <<>>]
    ELSE [threw |-> FALSE, value |-> InternationalPrefix \o PhoneRegexGroup(phone)]

\* The texts given to the phone functions: a prefix, a run of eight to ten
\* equal characters, with or without one other character in it, and with or
\* without a trailing one.
RECURSIVE Repeat(_, _)
Repeat(c, n) == IF n = 0 THEN <<>> ELSE <<c>> \o Repeat(c, n - 1)

PhonePrefixes == {<<>>, NationalPrefix, InternationalPrefix, <<"2", "3", "3">>, <<"+">>,
                  <<"+", "1">>, <<"0", "0">>, <<"+", "2", "3", "4">>}

PhoneBodies ==
    LET Runs == {Repeat(d, n) : d \in {"2", "0"}, n \in (SubscriberDigits - 1)..(SubscriberDigits + 1)}
    IN Runs \cup {[r EXCEPT ![i] = c] : r \in Runs, i \in {1, SubscriberDigits}, c \in {"a", " "}}

PhoneTexts ==
    {prefix \o body \o tail : prefix \in PhonePrefixes, body \in PhoneBodies,
                              tail \in {<<>>, <<"5">>, <<" ">>}}

\* The caller has taken the result of the call.
CallReturn ==
    /\ call # NoCall
    /\ call' = NoCall
    /\ UNCHANGED <<core, nonGateway>>

\* formatPhoneNumber is called with phone.
CallFormatPhoneNumber(phone) ==
    /\ call = NoCall
    /\ call' = [fn |-> "formatPhoneNumber", phone |-> phone, result |-> FormatPhoneNumber(phone)]
    /\ UNCHANGED <<core, nonGateway>>

\* The request bodies and the signature headers given to
\* validateWebhookSignature: the hex HMAC under the secret and under another
\* key, of this and of another body, in upper case, cut short, followed by
\* further characters, and texts that are not hex.
SamplePayloads == {<<1, 0, "SUCCESSFUL">>, <<1, 0, "FAILED">>, <<2, 1, "SUCCESSFUL">>}

UpperCase(text) ==
    [i \in 1..Len(text) |->
        IF IsHexChar(text[i]) THEN UpperHexChars[HexValue(text[i]) + 1] ELSE text[i]]

LowerCase(text) ==
    [i \in 1..Len(text) |->
        IF IsHexChar(text[i]) THEN HexChars[HexValue(text[i]) + 1] ELSE text[i]]

SampleSignatures ==
    LET Digests == {Hmac(key, payload) : key \in SignatureKeys \ {0}, payload \in SamplePayloads}
    IN {<<>>, <<"i", "n", "v", "a", "l", "i", "d">>}
       \cup Digests
       \cup {UpperCase(d) : d \in Digests}
       \cup {SubSeq(d, 1, Len(d) - n) : d \in Digests, n \in 1..2}
       \cup {d \o tail : d \in Digests, tail \in {<<"0">>, <<"0", "0">>, <<"z", "z">>, <<" ">>}}
       \cup {[d EXCEPT ![3] = "g"] : d \in Digests}

\* validateWebhookSignature is called on a service whose callbackSecret is secret.
CallValidateWebhookSignature(secret, payload, signature) ==
    /\ call = NoCall
    /\ call' = [fn |-> "validateWebhookSignature", secret |-> secret, payload |-> payload,
                signature |-> signature,
                result |-> [threw |-> FALSE, value |-> ValidateWith(secret, payload, signature)]]
    /\ UNCHANGED <<core, nonGateway>>

\* The outcomes of getAuthToken seen by a caller: a token, or an exception.
AuthOutcomes == {"token", "throws"}

\* What fetch gives for a collection request: a transport error (threw), or a
\* response with its HTTP status and whether its body can be read.
CollectionResponses ==
    {[threw |-> TRUE, status |-> 0, body |-> FALSE]}
        \cup {[threw |-> FALSE, status |-> s, body |-> b] : s \in {200, 202, 400, 500},
                                                            b \in BOOLEAN}

\* The customer numbers given to initiateCollection.
SamplePhones == {InternationalPrefix \o Repeat("2", SubscriberDigits),
                 NationalPrefix \o Repeat("2", SubscriberDigits),
                 NationalPrefix \o Repeat("2", SubscriberDigits - 1)}

\* The reference ids uuidv4 can generate (0 stands for the empty string).
ReferenceIds == {1, 2}

\* initiateCollection that lets the exceptions of its body escape.
InitiateCollectionUncaught(auth, customerPhone, response, uuid) ==
    IF auth = "throws" \/ ~PhoneRegex(customerPhone) \/ response.threw
            \/ (response.status # 202 /\ ~response.body)
    THEN [threw |-> TRUE, referenceId |-> 0, success |-> FALSE, error |-> "error.message"]
    ELSE IF response.status = 202
    THEN [threw |-> FALSE, referenceId |-> uuid, success |-> TRUE, error |-> "none"]
    ELSE [threw |-> FALSE, referenceId |-> uuid, success |-> FALSE,
          error |-> "Payment request failed"]

\* initiateCollection: the whole body is in a try block whose catch returns.
InitiateCollectionResult(auth, customerPhone, response, uuid) ==
    IF auth = "throws" \/ ~PhoneRegex(customerPhone) \/ response.threw
            \/ (response.status # 202 /\ ~response.body)
    THEN [threw |-> FALSE, referenceId |-> 0, success |-> FALSE, error |-> "error.message"]
    ELSE IF response.status = 202
    THEN [threw |-> FALSE, referenceId |-> uuid, success |-> TRUE, error |-> "none"]
    ELSE [threw |-> FALSE, referenceId |-> uuid, success |-> FALSE,
          error |-> "Payment request failed"]

CallInitiateCollection(auth, customerPhone, response, uuid) ==
    /\ call = NoCall
    /\ call' = [fn |-> "initiateCollection", auth |-> auth, phone |-> customerPhone,
                response |-> response, uuid |-> uuid,
                result |-> InitiateCollectionResult(auth, customerPhone, response, uuid)]
    /\ UNCHANGED <<core, nonGateway>>

\* What fetch gives for a status request: a transport error, or a response with
\* response.ok, whether its body parses, and the status the provider reports.
ProviderStatuses == {"PENDING", "SUCCESSFUL", "FAILED"}

StatusResponses ==
    {[threw |-> TRUE, ok |-> FALSE, body |-> FALSE, status |-> "FAILED"]}
        \cup {[threw |-> FALSE, ok |-> ok, body |-> b, status |-> st] :
                 ok \in BOOLEAN, b \in BOOLEAN, st \in ProviderStatuses}

\* data.reason and data.financialTransactionId of a status response.
StatusReason(response) == IF response.status = "FAILED" THEN "data.reason" ELSE "undefined"

StatusTransactionId(response) ==
    IF response.status = "SUCCESSFUL" THEN "data.financialTransactionId" ELSE "undefined"

\* checkPaymentStatus that lets the exceptions of its body escape.
CheckPaymentStatusUncaught(auth, response) ==
    IF auth = "throws" \/ response.threw \/ ~response.ok \/ ~response.body
    THEN [threw |-> TRUE, status |-> "FAILED", reason |-> "Status check failed",
          financialTransactionId |-> "undefined"]
    ELSE [threw |-> FALSE, status |-> response.status, reason |-> StatusReason(response),
          financialTransactionId |-> StatusTransactionId(response)]

\* checkPaymentStatus: the catch of its try block returns a FAILED result.
CheckPaymentStatusResult(auth, response) ==
    IF auth = "throws" \/ response.threw \/ ~response.ok \/ ~response.body
    THEN [threw |-> FALSE, status |-> "FAILED", reason |-> "Status check failed",
          financialTransactionId |-> "undefined"]
    ELSE [threw |-> FALSE, status |-> response.status, reason |-> StatusReason(response),
          financialTransactionId |-> StatusTransactionId(response)]

CallCheckPaymentStatus(auth, response) ==
    /\ call = NoCall
    /\ call' = [fn |-> "checkPaymentStatus", auth |-> auth, response |-> response,
                result |-> CheckPaymentStatusResult(auth, response)]
    /\ UNCHANGED <<core, nonGateway>>

(* ------------------------------ chat ---------------------------------- *)
\* address.length < 10 is refused by handleAddressInput.
MinAddressLength == 10

\* text.trim()
RECURSIVE TrimStart(_)
TrimStart(s) == IF s # <<>> /\ Head(s) = " " THEN TrimStart(Tail(s)) ELSE s

RECURSIVE TrimEnd(_)
TrimEnd(s) == IF s # <<>> /\ s[Len(s)] = " " THEN TrimEnd(SubSeq(s, 1, Len(s) - 1)) ELSE s

Trim(s) == TrimEnd(TrimStart(s))

\* The texts the customer sends: numbers in both accepted forms, one of them
\* padded with a blank, a number with a digit too many, one with a digit
\* missing, and a delivery address.
ChatTexts ==
    SamplePhones
        \cup {NationalPrefix \o Repeat("2", SubscriberDigits) \o <<" ">>,
              NationalPrefix \o Repeat("2", SubscriberDigits + 1),
              Repeat("a", MinAddressLength + 1)}

\* Faulty variant: handlePhoneInput tests the pattern without its $ anchor.
PhoneInputPrefixAccepted(phone) == PhoneRegexUnanchored(phone)

\* phoneRegex.test(phone) of handlePhoneInput.
PhoneInputAccepted(phone) == PhoneRegex(phone)

\* phoneRegex.test(text.trim()) of handleTextMessage (legacy support).
LegacyPhoneAccepted(text) == PhoneRegex(text)

\* The 'checkout' callback: startCheckout sets the session to the address step.
ChatStartCheckout ==
    /\ session' = [NoSession EXCEPT !.step = "address"]
    /\ UNCHANGED <<core, handling, requested, received, nonChat>>

\* A text handler calls processPaymentWithAddress / processPayment, which runs
\* up to its await of initiateCollection.  One checkout is in progress at a
\* time, and the chat sends at most MaxRequests collection requests.
ChatProcessPayment(by) ==
    /\ handling = "none"
    /\ requested < MaxRequests
    /\ handling' = by
    /\ InitiateCollection
    /\ requested' = requested + 1

\* handleTextMessage(chatId, text, user), up to the first await of a checkout.
ChatText(text) ==
    LET t == Trim(text) IN
    /\ received' = text
    /\ UNCHANGED nonChat
    /\ IF session.step = "address"
       THEN /\ session' = IF Len(t) < MinAddressLength THEN session
                          ELSE [session EXCEPT !.step = "phone", !.deliveryAddress = t]
            /\ UNCHANGED <<core, handling, requested>>
       ELSE IF session.step = "phone"
       THEN IF ~PhoneInputAccepted(t)
            THEN UNCHANGED <<core, session, handling, requested>>
            ELSE /\ session' = [session EXCEPT !.step = "complete", !.phoneNumber = t]
                 /\ ChatProcessPayment("session")
       ELSE IF session.step # "none"
       THEN /\ session' = NoSession
            /\ UNCHANGED <<core, handling, requested>>
       ELSE IF LegacyPhoneAccepted(t)
       THEN /\ ChatProcessPayment("legacy")
            /\ UNCHANGED session
       ELSE UNCHANGED <<core, session, handling, requested>>

\* processPaymentWithAddress / processPayment has returned: handlePhoneInput
\* deletes the session of the chat, handleTextMessage returns.
ChatDone ==
    /\ handling # "none"
    /\ collecting = "idle"
    /\ co = 0
    /\ handling' = "none"
    /\ session' = IF handling = "session" THEN NoSession ELSE session
    /\ UNCHANGED <<core, requested, received, nonChat>>

(* -------------------------- payment identity --------------------------- *)
\* externalId = `ecom_${Date.now()}_${chatId}`
ExternalIdOf(millis, chatId) == <<"ecom", millis, chatId>>

\* idempotencyKey: `payment_${externalId}`
PaymentIdempotencyKey(externalId) == <<"payment">> \o externalId

\* Faulty variant: payments.idempotency_key without its unique constraint.
IdempotencyKeyNeverTaken(key) == key # key

\* payments.idempotency_key is unique: a row with this key exists.
IdempotencyKeyTaken(key) ==
    \E row \in BagToSet(paymentRows) : row.idempotencyKey = key

\* A checkout of chatId reads Date.now() for its externalId and awaits
\* initiateCollection.
PlaceBegin(k, chatId) ==
    /\ placing[k].pc = "idle"
    /\ placing' = [placing EXCEPT ![k] = [pc |-> "collecting", chatId |-> chatId,
                                          externalId |-> ExternalIdOf(dateNow, chatId)]]
    /\ UNCHANGED <<core, nonIdentity, dateNow, paymentRows, uuids, issuedKeys>>

\* The collection was not accepted, or createOrder threw: no payment is inserted.
PlaceFailed(k) ==
    /\ placing[k].pc = "collecting"
    /\ placing' = [placing EXCEPT ![k] = NoPlacement]
    /\ UNCHANGED <<core, nonIdentity, dateNow, paymentRows, uuids, issuedKeys>>

\* storage.createPayment({..., externalId, idempotencyKey}): the insert throws
\* when the key is taken, and the catch of the checkout ends it.
PlaceCreatePayment(k) ==
    /\ placing[k].pc = "collecting"
    /\ LET key == PaymentIdempotencyKey(placing[k].externalId)
       IN paymentRows' = IF IdempotencyKeyTaken(key) THEN paymentRows
                         ELSE paymentRows (+) SetToBag({[externalId |-> placing[k].externalId,
                                                         idempotencyKey |-> key]})
    /\ placing' = [placing EXCEPT ![k] = NoPlacement]
    /\ UNCHANGED <<core, nonIdentity, dateNow, uuids, issuedKeys>>

\* A millisecond passes.
DateNowAdvance ==
    /\ dateNow < MaxDateNow
    /\ dateNow' = dateNow + 1
    /\ UNCHANGED <<core, nonIdentity, placing, paymentRows, uuids, issuedKeys>>

\* generateIdempotencyKey(orderId): `order:${orderId}:${uuidv4()}`; uuidv4
\* generates no value twice.
GenerateIdempotencyKey(forOrder) ==
    /\ Len(issuedKeys) < MaxKeys
    /\ uuids' = uuids + 1
    /\ issuedKeys' = Append(issuedKeys, <<"order", forOrder, uuids + 1>>)
    /\ UNCHANGED <<core, nonIdentity, dateNow, placing, paymentRows>>

(* ------------------------------ status --------------------------------- *)
\* Observer: the latest time at which a pass was executing.  The clock moves
\* with Tick alone, and a pass starts with a trigger, so the triggers are the
\* steps that move it.
ObservePass ==
    lastRunAt' = IF \E t \in Sources : rc'[t].pc # "idle" THEN now' ELSE lastRunAt

TickObserved == TickBody /\ ObservePass /\ UNCHANGED <<statusReply, nonStatus>>

StartupRunObserved == StartupRunBody /\ ObservePass /\ UNCHANGED <<statusReply, nonStatus>>

ForceReconciliationObserved ==
    ForceReconciliationBody /\ ObservePass /\ UNCHANGED <<statusReply, nonStatus>>

\* lastRun: new Date().toISOString()
GetStatusLastRun == now

\* GET /api/reconciliation/status -> getStatus()
GetStatus ==
    /\ statusReply' = [asked |-> TRUE, isRunning |-> isRunning, lastRun |-> GetStatusLastRun]
    /\ UNCHANGED <<core, lastRunAt, nonStatus>>

(* ---------------------------- order numbers ---------------------------- *)
\* `ORD-${year}${month}${day}-${sequence}` with sequence = String(count + 1),
\* padded to three digits; all calls fall on one day.
OrderNumber(count) == <<"ORD", "today", count + 1>>

\* select count(*) from orders where created_at >= start of today
CountTodaysOrders == BagCardinality(orderRows)

\* orders.order_number is unique: a row with this number exists.
OrderNumberTaken(orderNumber) == BagIn(orderNumber, orderRows)

\* createOrder -> await generateOrderNumber(): the day's orders are counted.
CreateOrderGenerate(c) ==
    /\ creating[c].pc = "idle"
    /\ BagCardinality(orderRows) < MaxOrders
    /\ creating' = [creating EXCEPT ![c] = [pc |-> "insert",
                                            orderNumber |-> OrderNumber(CountTodaysOrders)]]
    /\ UNCHANGED <<core, nonOrders, orderRows>>

\* createOrder: insert into orders values {...order, orderNumber}; the insert
\* throws when the number is taken, and createOrder with it.
CreateOrderInsert(c) ==
    /\ creating[c].pc = "insert"
    /\ IF OrderNumberTaken(creating[c].orderNumber)
       THEN /\ creating' = [creating EXCEPT ![c].pc = "threw"]
            /\ UNCHANGED orderRows
       ELSE /\ creating' = [creating EXCEPT ![c].pc = "created"]
            /\ orderRows' = orderRows (+) SetToBag({creating[c].orderNumber})
    /\ UNCHANGED <<core, nonOrders>>

\* The caller has taken the order, or the exception.
CreateOrderReturn(c) ==
    /\ creating[c].pc \in {"created", "threw"}
    /\ creating' = [creating EXCEPT ![c] = NoCreate]
    /\ UNCHANGED <<core, nonOrders, orderRows>>

(* ----------------------------- token cache ----------------------------- *)
\* expires_in of the token responses, in minutes.
TokenTtls == {RefreshMarginMinutes + 1, RefreshMarginMinutes + 2}

\* this.cachedToken && this.tokenExpiry && new Date() < this.tokenExpiry
CachedTokenValid == cachedToken # 0 /\ tokenExpiry # -1 /\ now < tokenExpiry

\* getAuthToken(): the cached token is returned, or the subscription key is
\* read and the token request sent.
GetAuthToken(r) ==
    /\ auths[r] = "idle"
    /\ afterRefresh' = FALSE
    /\ IF CachedTokenValid
       THEN /\ tokenReply' = [to |-> r, threw |-> FALSE, token |-> cachedToken]
            /\ UNCHANGED auths
       ELSE /\ auths' = [auths EXCEPT ![r] = "fetching"]
            /\ UNCHANGED tokenReply
    /\ UNCHANGED <<core, nonToken, cachedToken, tokenExpiry, tokensIssued, lastAuth>>

\* The token request is answered ok: the token is cached with its expiry.
AuthTokenOk(r, ttl) ==
    /\ auths[r] = "fetching"
    /\ tokensIssued < MaxTokens
    /\ tokensIssued' = tokensIssued + 1
    /\ cachedToken' = tokensIssued + 1
    /\ tokenExpiry' = now + (ttl - RefreshMarginMinutes)
    /\ tokenReply' = [to |-> r, threw |-> FALSE, token |-> tokensIssued + 1]
    /\ auths' = [auths EXCEPT ![r] = "idle"]
    /\ lastAuth' = [at |-> now, ttl |-> ttl]
    /\ UNCHANGED <<core, nonToken, afterRefresh>>

\* The subscription key or the credentials are missing, the request fails in
\* transport or is answered not ok: the error is rethrown.
AuthTokenThrow(r) ==
    /\ auths[r] = "fetching"
    /\ tokenReply' = [to |-> r, threw |-> TRUE, token |-> 0]
    /\ auths' = [auths EXCEPT ![r] = "idle"]
    /\ UNCHANGED <<core, nonToken, cachedToken, tokenExpiry, tokensIssued, afterRefresh,
                   lastAuth>>

\* refreshCredentials(), once initializeCredentials has resolved: the cached
\* token and its expiry are cleared.
RefreshCredentials ==
    /\ cachedToken' = 0
    /\ tokenExpiry' = -1
    /\ afterRefresh' = TRUE
    /\ lastAuth' = NoAuth
    /\ UNCHANGED <<core, nonToken, auths, tokensIssued, tokenReply>>

\* A minute passes.
TokenClockAdvance ==
    /\ now < MaxTokenTime
    /\ now' = now + 1
    /\ UNCHANGED <<cronClock, ledger, collecting, co, wh, isRunning, rc, startupDone,
                   trigLog, aux>>

(* ------------------------- reconciliation report ----------------------- *)
\* The steps of a pass with its three counters.  The counters are set to 0
\* once the fetch has resolved.
PassFetchOkCounted(t) ==
    /\ PassFetchOkBody(t)
    /\ tally' = [tally EXCEPT ![t] = ZeroTally]
    /\ UNCHANGED <<report, nonReport>>

PassFetchThrowCounted(t) == PassFetchThrowBody(t) /\ UNCHANGED <<reportVars, nonReport>>

\* console.log(`Reconciliation completed: ${processed} processed, ...`) after
\* the loop, with what the pass fetched and wrote.
LoggedReport(t) ==
    [logged |-> TRUE, fetched |-> Len(rc[t].pending),
     processed |-> tally[t].processed, updated |-> tally[t].updated,
     timedOut |-> tally[t].timedOut,
     setTimeout |-> tally[t].setTimeout, setResult |-> tally[t].setResult]

\* processed++ is the first statement of the loop body.
PassCheckCounted(t) ==
    /\ PassCheckBody(t)
    /\ IF rc[t].idx > Len(rc[t].pending)
       THEN report' = LoggedReport(t) /\ tally' = [tally EXCEPT ![t] = ZeroTally]
       ELSE tally' = [tally EXCEPT ![t].processed = @ + 1] /\ UNCHANGED report
    /\ UNCHANGED nonReport

PassPollCounted(t, outcome) == PassPollBody(t, outcome) /\ UNCHANGED <<reportVars, nonReport>>

\* updatePayment has resolved: the status is written, no counter moves yet.
PassUpdatePaymentOkCounted(t) ==
    /\ PassUpdatePaymentOkBody(t)
    /\ tally' = IF rc[t].new = "TIMEOUT" THEN [tally EXCEPT ![t].setTimeout = @ + 1]
                ELSE [tally EXCEPT ![t].setResult = @ + 1]
    /\ UNCHANGED <<report, nonReport>>

\* timedOut++ and updated++ follow the await of updateOrder in their branch.
PassUpdateOrderOkCounted(t) ==
    /\ PassUpdateOrderOkBody(t)
    /\ tally' = IF rc[t].new = "TIMEOUT" THEN [tally EXCEPT ![t].timedOut = @ + 1]
                ELSE [tally EXCEPT ![t].updated = @ + 1]
    /\ UNCHANGED <<report, nonReport>>

\* The per-payment catch logs the error and touches no counter.
PassThrowCounted(t) == PassThrowBody(t) /\ UNCHANGED <<reportVars, nonReport>>

PassCounted ==
    \/ \E t \in Sources : PassFetchOkCounted(t)
    \/ \E t \in Sources : PassCheckCounted(t)
    \/ \E t \in Sources, o \in ProviderOutcomes : PassPollCounted(t, o)
    \/ \E t \in Sources : PassUpdatePaymentOkCounted(t)
    \/ \E t \in Sources : PassUpdateOrderOkCounted(t)

(* -------------------------- checkout sessions -------------------------- *)
\* The session map of one chat with every handler that may be in flight: a
\* handlePhoneInput call keeps the session object it was given while it awaits
\* the provider and the ledger, and messages of the chat go on arriving.

\* this.checkoutSessions.set(chatId, { step: 'address', userId }): a new object.
SessionStart ==
    /\ sessionsCreated < MaxSessions
    /\ sessionsCreated' = sessionsCreated + 1
    /\ checkoutSessions' = [id |-> sessionsCreated + 1, step |-> "address"]
    /\ UNCHANGED <<phoneInputs, made, core, chatVars, nonSession>>

\* Faulty variant: handlePhoneInput leaves the step alone until the attempt is over.
PhoneInputStepKept == "phone"

\* session.step = 'complete', before processPaymentWithAddress is awaited.
PhoneInputStep == "complete"

\* A slot for one more handlePhoneInput call.
FreePhoneInput == CHOOSE k \in PhoneInputs : phoneInputs[k].pc = "idle"

\* handleTextMessage(chatId, text, user) with handleCheckoutStep, up to the
\* first await: the address step stores the address, the phone step marks the
\* session object and calls processPaymentWithAddress, any other step deletes
\* the entry; without entry no session is involved.
SessionText(text) ==
    LET t == Trim(text)
        entry == checkoutSessions
    IN /\ received' = text
       /\ UNCHANGED <<sessionsCreated, made, core, session, handling, requested, nonSession>>
       /\ IF entry.step = "address"
          THEN /\ checkoutSessions' = IF Len(t) < MinAddressLength THEN entry
                                      ELSE [entry EXCEPT !.step = "phone"]
               /\ UNCHANGED phoneInputs
          ELSE IF entry.step = "phone"
          THEN IF ~PhoneInputAccepted(t)
               THEN UNCHANGED <<checkoutSessions, phoneInputs>>
               ELSE /\ \E k \in PhoneInputs : phoneInputs[k].pc = "idle"
                    /\ checkoutSessions' = [entry EXCEPT !.step = PhoneInputStep]
                    /\ phoneInputs' = [phoneInputs EXCEPT ![FreePhoneInput] =
                                          [pc |-> "import", id |-> entry.id]]
          ELSE IF entry.step # "none"
          THEN checkoutSessions' = NoEntry /\ UNCHANGED phoneInputs
          ELSE UNCHANGED <<checkoutSessions, phoneInputs>>

\* await import('./mtn-momo') resolves and initiateCollection is called.
PhoneInputRequest(k) ==
    /\ phoneInputs[k].pc = "import"
    /\ phoneInputs' = [phoneInputs EXCEPT ![k].pc = "collect"]
    /\ made' = [made EXCEPT ![phoneInputs[k].id].requests = @ + 1]
    /\ UNCHANGED <<checkoutSessions, sessionsCreated, core, chatVars, nonSession>>

\* initiateCollection answers: createOrder is called when it succeeded, the
\* customer is told when it did not.
PhoneInputCollected(k, success) ==
    /\ phoneInputs[k].pc = "collect"
    /\ phoneInputs' = [phoneInputs EXCEPT ![k].pc = IF success THEN "order" ELSE "delete"]
    /\ UNCHANGED <<checkoutSessions, sessionsCreated, made, core, chatVars, nonSession>>

\* storage.createOrder resolves, createPayment is called.
PhoneInputCreateOrder(k) ==
    /\ phoneInputs[k].pc = "order"
    /\ phoneInputs' = [phoneInputs EXCEPT ![k].pc = "payment"]
    /\ made' = [made EXCEPT ![phoneInputs[k].id].orders = @ + 1]
    /\ UNCHANGED <<checkoutSessions, sessionsCreated, core, chatVars, nonSession>>

\* storage.createPayment resolves; the customer is told to approve the payment.
PhoneInputCreatePayment(k) ==
    /\ phoneInputs[k].pc = "payment"
    /\ phoneInputs' = [phoneInputs EXCEPT ![k].pc = "delete"]
    /\ made' = [made EXCEPT ![phoneInputs[k].id].payments = @ + 1]
    /\ UNCHANGED <<checkoutSessions, sessionsCreated, core, chatVars, nonSession>>

\* A ledger call throws: the catch of processPaymentWithAddress tells the
\* customer, and the call returns.
PhoneInputThrow(k) ==
    /\ phoneInputs[k].pc \in {"order", "payment"}
    /\ phoneInputs' = [phoneInputs EXCEPT ![k].pc = "delete"]
    /\ UNCHANGED <<checkoutSessions, sessionsCreated, made, core, chatVars, nonSession>>

\* this.checkoutSessions.delete(chatId) after the attempt: whatever entry the
\* chat has now is removed.
PhoneInputDelete(k) ==
    /\ phoneInputs[k].pc = "delete"
    /\ checkoutSessions' = NoEntry
    /\ phoneInputs' = [phoneInputs EXCEPT ![k] = NoPhoneInput]
    /\ UNCHANGED <<sessionsCreated, made, core, chatVars, nonSession>>

(* ---------------------------- specifications --------------------------- *)
Checkout ==
    \/ CheckoutInitiate
    \/ CheckoutCollectionFailed
    \/ CheckoutDeclined
    \/ CheckoutCreateOrder
    \/ CheckoutCreatePaymentOk

Webhook ==
    \/ \E h \in Handlers, p \in Payments, st \in WebhookStatuses : WebhookReceive(h, p, st)
    \/ \E h \in Handlers : WebhookUpdatePaymentOk(h)
    \/ \E h \in Handlers : WebhookUpdateOrderOk(h)

\* The handler from the arrival of any request to the payment it works on.
WebhookCorrelate ==
    \/ \E h \in Handlers, key \in SignatureKeys, referenceId \in NotificationIds,
          externalId \in NotificationIds, st \in WebhookStatuses :
          WebhookRequest(h, key, referenceId, externalId, st)
    \/ \E h \in Handlers : WebhookFindByReference(h)
    \/ \E h \in Handlers : WebhookFindByExternalId(h)
    \/ \E h \in Handlers : WebhookDone(h)

Trigger == Tick \/ StartupRun \/ ForceReconciliation

Pass ==
    \/ \E t \in Sources : PassFetchOk(t)
    \/ \E t \in Sources : PassCheck(t)
    \/ \E t \in Sources, o \in ProviderOutcomes : PassPoll(t, o)
    \/ \E t \in Sources : PassUpdatePaymentOk(t)
    \/ \E t \in Sources : PassUpdateOrderOk(t)

LedgerFailureEngine ==
    \/ CheckoutCreateOrderThrow
    \/ CheckoutCreatePaymentThrow
    \/ \E t \in Sources : PassFetchThrow(t)
    \/ \E t \in Sources : PassThrow(t)

LedgerFailure == LedgerFailureEngine \/ \E h \in Handlers : WebhookThrow(h)

\* The ledger never throws.
NextReliable == Checkout \/ Webhook \/ Trigger \/ Pass

Next == NextReliable \/ WebhookCorrelate \/ LedgerFailure

\* No webhook request is being handled.
HandlersIdle == \A h \in Handlers : wh[h].pc = "idle"

\* One checkout (retried until its order is inserted) and webhook requests of
\* any content delivered one at a time,
\* no reconciliation; ledger calls may throw.
NextDelivery ==
    \/ (ordStatus[1] = "NONE" /\ CheckoutInitiate)
    \/ CheckoutCollectionFailed
    \/ CheckoutDeclined
    \/ CheckoutCreateOrder
    \/ CheckoutCreatePaymentOk
    \/ (HandlersIdle /\ \E h \in Handlers, key \in SignatureKeys,
                           referenceId \in NotificationIds, externalId \in NotificationIds,
                           st \in WebhookStatuses :
                           WebhookRequest(h, key, referenceId, externalId, st))
    \/ \E h \in Handlers : WebhookFindByReference(h)
    \/ \E h \in Handlers : WebhookFindByExternalId(h)
    \/ \E h \in Handlers : WebhookDone(h)
    \/ \E h \in Handlers : WebhookUpdatePaymentOk(h)
    \/ \E h \in Handlers : WebhookUpdateOrderOk(h)
    \/ CheckoutCreateOrderThrow
    \/ CheckoutCreatePaymentThrow
    \/ \E h \in Handlers : WebhookThrow(h)

\* The reconciliation engine and the checkouts feeding it, no webhook.
NextEngine == Checkout \/ Trigger \/ Pass \/ LedgerFailureEngine

\* One checkout, with the webhook handler and the reconciliation engine racing
\* on its payment; the ledger never throws.
NextRace ==
    \/ (ordStatus[1] = "NONE" /\ CheckoutInitiate)
    \/ CheckoutCreateOrder
    \/ CheckoutCreatePaymentOk
    \/ Webhook
    \/ Trigger
    \/ Pass

\* Time advances, the startup timer fires and a pass that has started runs on:
\* the event loop resumes every await whose ledger or provider call resolves.
Fairness ==
    /\ WF_vars(Tick)
    /\ WF_vars(StartupRun)
    /\ WF_vars(Pass)

\* Two accepted checkouts, webhook notifications delivered one at a time and forced
\* reconciliation passes on a ledger that never throws; the clock stands still.
NextLedger ==
    \/ (ordStatus[2] = "NONE" /\ CheckoutInitiate)
    \/ CheckoutCreateOrder
    \/ CheckoutCreatePaymentOk
    \/ (HandlersIdle /\ \E h \in Handlers, p \in Payments, st \in WebhookStatuses :
                            WebhookReceive(h, p, st))
    \/ \E h \in Handlers : WebhookUpdatePaymentOk(h)
    \/ \E h \in Handlers : WebhookUpdateOrderOk(h)
    \/ ForceReconciliation
    \/ Pass

Spec == Init /\ [][Next]_vars

SpecLedger == Init /\ [][NextLedger]_vars

SpecEngine == Init /\ [][NextEngine]_vars

SpecRace == Init /\ [][NextRace]_vars

SpecDelivery == Init /\ [][NextDelivery]_vars

\* One checkout, the webhook handler and the scheduled passes (cron ticks and
\* the startup run) under fairness, for the liveness of the timeout path.
NextLive ==
    \/ (ordStatus[1] = "NONE" /\ CheckoutInitiate)
    \/ CheckoutCreateOrder
    \/ CheckoutCreatePaymentOk
    \/ Webhook
    \/ Tick
    \/ StartupRun
    \/ Pass

SpecLive == Init /\ [][NextLive]_vars /\ Fairness

SpecReliable == Init /\ [][NextReliable]_vars

\* The functions of the gateway client called one at a time, each with any of
\* the inputs enumerated for it.
NextGateway ==
    \/ CallReturn
    \/ \E phone \in PhoneTexts : CallFormatPhoneNumber(phone)
    \/ \E secret \in SignatureKeys, payload \in SamplePayloads, signature \in SampleSignatures :
          CallValidateWebhookSignature(secret, payload, signature)
    \/ \E auth \in AuthOutcomes, customerPhone \in SamplePhones,
          response \in CollectionResponses, uuid \in ReferenceIds :
          CallInitiateCollection(auth, customerPhone, response, uuid)
    \/ \E auth \in AuthOutcomes, response \in StatusResponses :
          CallCheckPaymentStatus(auth, response)

SpecGateway == Init /\ [][NextGateway]_vars

\* One chat: the customer opens the checkout before any collection request
\* has been sent and sends texts; each checkout started runs to its end.
NextChat ==
    \/ (requested = 0 /\ ChatStartCheckout)
    \/ \E text \in ChatTexts : ChatText(text)
    \/ ChatDone
    \/ CheckoutCollectionFailed
    \/ CheckoutDeclined
    \/ CheckoutCreateOrder
    \/ CheckoutCreateOrderThrow
    \/ CheckoutCreatePaymentOk
    \/ CheckoutCreatePaymentThrow

SpecChat == Init /\ [][NextChat]_vars

\* Checkouts of two chats, up to NPlacements in flight together, and calls of
\* generateIdempotencyKey, which come before the first payment is recorded.
NextIdentity ==
    \/ \E k \in Placements, chatId \in ChatIds : PlaceBegin(k, chatId)
    \/ \E k \in Placements : PlaceFailed(k)
    \/ \E k \in Placements : PlaceCreatePayment(k)
    \/ DateNowAdvance
    \/ (paymentRows = EmptyBag /\ \E forOrder \in Payments : GenerateIdempotencyKey(forOrder))

SpecIdentity == Init /\ [][NextIdentity]_vars

\* The triggers and the passes they start over an empty ledger, with the
\* status route queried at any moment.
NextStatus ==
    \/ TickObserved
    \/ StartupRunObserved
    \/ ForceReconciliationObserved
    \/ \E t \in Sources : PassFetchOk(t)
    \/ \E t \in Sources : PassFetchThrow(t)
    \/ \E t \in Sources : PassCheck(t)
    \/ GetStatus

SpecStatus == Init /\ [][NextStatus]_vars

\* Concurrent calls of createOrder.
NextOrders ==
    \/ \E c \in Callers : CreateOrderGenerate(c)
    \/ \E c \in Callers : CreateOrderInsert(c)
    \/ \E c \in Callers : CreateOrderReturn(c)

SpecOrders == Init /\ [][NextOrders]_vars

\* Concurrent token requests, settings saved at any moment, and the clock.
NextToken ==
    \/ \E r \in Requesters : GetAuthToken(r)
    \/ \E r \in Requesters, ttl \in TokenTtls : AuthTokenOk(r, ttl)
    \/ \E r \in Requesters : AuthTokenThrow(r)
    \/ RefreshCredentials
    \/ TokenClockAdvance

SpecToken == Init /\ [][NextToken]_vars

\* One checkout and the reconciliation engine, with time advancing, on a
\* ledger whose updates may throw inside a pass.
NextCascade ==
    \/ (ordStatus[1] = "NONE" /\ CheckoutInitiate)
    \/ CheckoutCreateOrder
    \/ CheckoutCreatePaymentOk
    \/ Tick
    \/ StartupRun
    \/ Pass
    \/ \E t \in Sources : PassThrow(t)

SpecCascade == Init /\ [][NextCascade]_vars /\ Fairness

\* Two accepted checkouts and webhook requests of every shape, handled one at a
\* time on a ledger that never throws; no reconciliation, the clock stands still.
NextCorrelation ==
    \/ (ordStatus[2] = "NONE" /\ CheckoutInitiate)
    \/ CheckoutCreateOrder
    \/ CheckoutCreatePaymentOk
    \/ (HandlersIdle /\ \E h \in Handlers, key \in SignatureKeys,
                           referenceId \in NotificationIds, externalId \in NotificationIds,
                           st \in WebhookStatuses :
                           WebhookRequest(h, key, referenceId, externalId, st))
    \/ \E h \in Handlers : WebhookFindByReference(h)
    \/ \E h \in Handlers : WebhookFindByExternalId(h)
    \/ \E h \in Handlers : WebhookDone(h)
    \/ \E h \in Handlers : WebhookUpdatePaymentOk(h)
    \/ \E h \in Handlers : WebhookUpdateOrderOk(h)

SpecCorrelation == Init /\ [][NextCorrelation]_vars

\* One accepted checkout growing old while the clock runs, with signed
\* SUCCESSFUL notifications of every correlation handled one at a time and the
\* scheduled passes; the ledger never throws.
NextAge ==
    \/ (ordStatus[1] = "NONE" /\ CheckoutInitiate)
    \/ CheckoutCreateOrder
    \/ CheckoutCreatePaymentOk
    \/ Tick
    \/ StartupRun
    \/ Pass
    \/ (HandlersIdle /\ \E h \in Handlers, referenceId \in NotificationIds,
                           externalId \in NotificationIds :
                           WebhookRequest(h, CallbackSecret, referenceId, externalId, "SUCCESSFUL"))
    \/ \E h \in Handlers : WebhookFindByReference(h)
    \/ \E h \in Handlers : WebhookFindByExternalId(h)
    \/ \E h \in Handlers : WebhookDone(h)
    \/ \E h \in Handlers : WebhookUpdatePaymentOk(h)
    \/ \E h \in Handlers : WebhookUpdateOrderOk(h)

SpecAge == Init /\ [][NextAge]_vars

\* Two accepted checkouts growing old and the scheduled passes with their
\* counters, on a ledger whose calls may throw inside a pass.
NextReport ==
    \/ (ordStatus[2] = "NONE" /\ CheckoutInitiate)
    \/ CheckoutCreateOrder
    \/ CheckoutCreatePaymentOk
    \/ Tick
    \/ StartupRun
    \/ PassCounted
    \/ \E t \in Sources : PassFetchThrowCounted(t)
    \/ \E t \in Sources : PassThrowCounted(t)

SpecReport == Init /\ [][NextReport]_vars

\* One chat: checkouts started, texts sent at any moment, and the attempts in
\* flight advancing one await at a time.
NextSession ==
    \/ SessionStart
    \/ \E text \in ChatTexts : SessionText(text)
    \/ \E k \in PhoneInputs : PhoneInputRequest(k)
    \/ \E k \in PhoneInputs, success \in BOOLEAN : PhoneInputCollected(k, success)
    \/ \E k \in PhoneInputs : PhoneInputCreateOrder(k)
    \/ \E k \in PhoneInputs : PhoneInputCreatePayment(k)
    \/ \E k \in PhoneInputs : PhoneInputThrow(k)
    \/ \E k \in PhoneInputs : PhoneInputDelete(k)

SpecSession == Init /\ [][NextSession]_vars

(* ------------------------------- claims -------------------------------- *)
Age(p) == now - createdAt[p]

Active(t) == rc[t].pc # "idle"

\* The pass in slot t is inside its loop, on a payment of its batch.
OnPayment(t) == rc[t].pc \in {"check", "poll", "updPay", "updOrd"} /\ rc[t].idx <= Len(rc[t].pending)

\* C1: once a payment's status is SUCCESS, FAILED or TIMEOUT, no step of a
\* webhook handler or of a reconciliation pass changes it.
C1_TerminalImmutable ==
    [][\A p \in Payments : payStatus[p] \in TerminalStatus => payStatus'[p] = payStatus[p]]_vars

\* A webhook handler and a pass are both in flight on the same payment, which
\* the pass fetched as PENDING.
InRace(t, h) ==
    /\ rc[t].pc \in {"poll", "updPay", "updOrd"}
    /\ wh[h].pc \in {"updPay", "updOrd"}
    /\ CurPayment(t) = wh[h].pay

\* C2: when a webhook handler and a reconciliation pass race on a payment, the
\* payment-status write of whichever comes second (the payment is no longer
\* PENDING when it writes) has no effect on the payment.
C2_LoserWriteHasNoEffect ==
    [][\A t \in Sources, h \in Handlers :
          (/\ InRace(t, h)
           /\ payStatus[wh[h].pay] # "PENDING"
           /\ (PassUpdatePaymentOk(t) \/ WebhookUpdatePaymentOk(h)))
          => payStatus' = payStatus]_vars

\* No webhook handler and no pass is between its payment write and its order write.
Quiescent ==
    /\ \A h \in Handlers : wh[h].pc # "updOrd"
    /\ \A t \in Sources : rc[t].pc # "updOrd"

Agree(p) ==
    /\ payStatus[p] = "SUCCESS" => ordStatus[p] = "PAID"
    /\ payStatus[p] \in {"FAILED", "TIMEOUT"} => ordStatus[p] = "CANCELLED"
    /\ payStatus[p] = "PENDING" => ordStatus[p] = "PENDING"

\* C3: whenever no handler and no pass is in the middle of its two writes, every
\* payment and its order agree (SUCCESS/PAID, FAILED or TIMEOUT/CANCELLED,
\* PENDING/PENDING).
C3_PaymentOrderAgree == Quiescent => \A p \in Payments : Agree(p)

\* C4: an order that is CANCELLED stays CANCELLED and an order that is PAID stays
\* PAID, whatever webhook notifications and reconciliation passes follow.
C4_OrderMonotonic ==
    [][\A p \in Payments :
          /\ ordStatus[p] = "CANCELLED" => ordStatus'[p] = "CANCELLED"
          /\ ordStatus[p] = "PAID" => ordStatus'[p] = "PAID"]_vars

\* C5: a pass that reaches a payment of its batch whose age strictly exceeds the
\* timeout issues the TIMEOUT write and never the provider poll; its payment
\* write stores TIMEOUT and its order write stores CANCELLED.
C5_TimeoutPrecedence ==
    [][\A t \in Sources :
          /\ (/\ rc[t].pc = "check"
              /\ rc[t].idx <= Len(rc[t].pending)
              /\ Age(CurPayment(t)) > TimeoutMinutes
              /\ rc'[t] # rc[t])
             => (rc'[t].pc = "updPay" /\ rc'[t].new = "TIMEOUT" /\ rc'[t].idx = rc[t].idx)
          /\ (rc[t].pc # "poll" /\ rc'[t].pc = "poll")
             => Age(rc'[t].pending[rc'[t].idx]) <= TimeoutMinutes
          /\ (rc[t].pc = "updPay" /\ rc[t].new = "TIMEOUT" /\ PassUpdatePaymentOk(t))
             => payStatus'[CurPayment(t)] = "TIMEOUT"
          /\ (rc[t].pc = "updOrd" /\ rc[t].new = "TIMEOUT" /\ PassUpdateOrderOk(t))
             => ordStatus'[CurPayment(t)] = "CANCELLED"]_vars

\* A pass has timed a payment out: TIMEOUT and CANCELLED are written while
\* the provider would have been polled for a younger payment.
C5_Witness ==
    \E t \in Sources :
        /\ rc[t].pc = "check"
        /\ rc[t].idx = 2
        /\ Age(rc[t].pending[1]) > TimeoutMinutes
        /\ payStatus[rc[t].pending[1]] = "TIMEOUT"
        /\ ordStatus[rc[t].pending[1]] = "CANCELLED"

\* C6: after the poll of a payment failed at transport level, the pass leaves
\* that payment PENDING and its order PENDING.
C6_TransportErrorLeavesPending ==
    \A t \in Sources :
        (OnPayment(t) /\ rc[t].transportErr)
        => (payStatus[CurPayment(t)] = "PENDING" /\ ordStatus[CurPayment(t)] = "PENDING")

\* C7: at most one pass executes at any time, isRunning is held exactly while one
\* does, and a trigger (cron tick, startup run, forced run) arriving while the
\* guard is held touches neither the ledger nor any pass, and starts none.
C7_MutualExclusion ==
    /\ [](Cardinality({t \in Sources : Active(t)}) <= 1)
    /\ [](isRunning <=> \E t \in Sources : Active(t))
    /\ [][(isRunning /\ Trigger) => UNCHANGED <<ledger, rc, isRunning>>]_vars

\* A cron tick was skipped while a pass was at work on a payment.
C7_Witness ==
    /\ trigLog = "cron_skipped"
    /\ \E t \in Sources : rc[t].pc \in {"poll", "updPay", "updOrd"}

\* C8: forceReconciliation invoked while the guard is held answers 'already
\* running' (success false), writes nothing to the ledger and leaves the pass
\* in flight as it is.
C8_ForceWhileRunning ==
    [][(isRunning /\ ForceReconciliation)
          => (trigLog' = "force_rejected" /\ UNCHANGED <<ledger, rc, isRunning>>)]_vars

\* A forced run was rejected while a scheduled pass was in flight.
C8_Witness ==
    /\ trigLog = "force_rejected"
    /\ isRunning
    /\ rc["cron"].pc \in {"fetch", "check", "poll", "updPay", "updOrd"}

\* C9: when the processing of payment k of a batch throws, the pass keeps
\* running on the same batch and moves to payment k+1; a pass ends only after
\* the last payment of its batch; and after a throw every later payment gets
\* the decision its age calls for (TIMEOUT write when older than the timeout,
\* provider poll otherwise).
C9_BatchResilience ==
    [][\A t \in Sources :
          /\ PassThrow(t)
             => (/\ isRunning'
                 /\ rc'[t].pc = "check"
                 /\ rc'[t].pending = rc[t].pending
                 /\ rc'[t].idx = rc[t].idx + 1
                 /\ UNCHANGED ledger)
          /\ (rc[t].pc \in {"check", "poll", "updPay", "updOrd"} /\ rc'[t].pc = "idle")
             => rc[t].idx > Len(rc[t].pending)
          /\ (/\ rc[t].errAt > 0
              /\ rc[t].pc = "check"
              /\ rc[t].idx <= Len(rc[t].pending)
              /\ rc'[t] # rc[t])
             => (/\ rc'[t].idx = rc[t].idx
                 /\ rc'[t].pending = rc[t].pending
                 /\ IF Age(CurPayment(t)) > TimeoutMinutes
                    THEN rc'[t].pc = "updPay" /\ rc'[t].new = "TIMEOUT"
                    ELSE rc'[t].pc = "poll")]_vars

\* The first payment of a batch of two threw and the second was resolved.
C9_Witness ==
    \E t \in Sources :
        /\ Len(rc[t].pending) = 2
        /\ rc[t].errAt = 1
        /\ rc[t].pc = "check"
        /\ rc[t].idx = 3
        /\ payStatus[rc[t].pending[1]] = "PENDING"
        /\ payStatus[rc[t].pending[2]] \in TerminalStatus
        /\ ordStatus[rc[t].pending[2]] \in {"PAID", "CANCELLED"}

C11_StatusMapping ==
    [][\A t \in Sources :
          /\ PassPoll(t, "SUCCESSFUL")
             => (rc'[t].pc = "updPay" /\ rc'[t].new = "SUCCESS" /\ rc'[t].idx = rc[t].idx)
          /\ PassPoll(t, "FAILED")
             => (rc'[t].pc = "updPay" /\ rc'[t].new = "FAILED" /\ rc'[t].idx = rc[t].idx)
          /\ PassPoll(t, "PENDING")
             => (rc'[t].pc = "check" /\ rc'[t].idx = rc[t].idx + 1 /\ UNCHANGED ledger)
          /\ (rc[t].new \in {"SUCCESS", "FAILED"} /\ PassUpdatePaymentOk(t))
             => (/\ payStatus'[CurPayment(t)] = rc[t].new
                 /\ rc'[t].pc = "updOrd"
                 /\ rc'[t].new = rc[t].new)
          /\ (rc[t].new = "SUCCESS" /\ PassUpdateOrderOk(t))
             => ordStatus'[orderId[CurPayment(t)]] = "PAID"
          /\ (rc[t].new = "FAILED" /\ PassUpdateOrderOk(t))
             => ordStatus'[orderId[CurPayment(t)]] = "CANCELLED"]_vars

\* A pass has resolved a polled payment as SUCCESS with its order PAID and
\* another as FAILED with its order CANCELLED, neither older than the timeout.
C11_Witness ==
    \E t \in Sources :
        /\ rc[t].pc = "check"
        /\ rc[t].idx = 3
        /\ Len(rc[t].pending) = 2
        /\ \A i \in 1..2 : Age(rc[t].pending[i]) <= TimeoutMinutes
        /\ payStatus[rc[t].pending[1]] = "SUCCESS"
        /\ ordStatus[orderId[rc[t].pending[1]]] = "PAID"
        /\ payStatus[rc[t].pending[2]] = "FAILED"
        /\ ordStatus[orderId[rc[t].pending[2]]] = "CANCELLED"

\* C12: a handler of a SUCCESSFUL notification whose payment write finds the
\* payment already SUCCESS and its order already PAID (the notification was
\* delivered before) issues no order write afterwards.
C12_NoDuplicateOrderWrite ==
    [][\A h \in Handlers :
          (/\ wh[h].pc = "updPay"
           /\ wh[h].newStatus = "SUCCESS"
           /\ payStatus[wh[h].pay] = "SUCCESS"
           /\ ordStatus[orderId[wh[h].pay]] = "PAID"
           /\ WebhookUpdatePaymentOk(h))
          => wh'[h].pc # "updOrd"]_vars

\* C13: the writes of a handler whose notification reports neither success nor
\* failure leave every payment status and every order status as they were.
C13_NonTerminalStatusNoOp ==
    [][\A h \in Handlers :
          (/\ wh[h].newStatus = "PENDING"
           /\ (WebhookUpdatePaymentOk(h) \/ WebhookUpdateOrderOk(h)))
          => (payStatus' = payStatus /\ ordStatus' = ordStatus)]_vars

\* What the webhook handler leaves in payment p and its order for status st.
WebhookResult(p, st) == <<WebhookNewStatus(st), WebhookOrderStatus(st)>>

\* What a pass leaves in payment p and its order when the poll answers st.
ReconcileResult(p, st) ==
    LET new == PassNewStatus(st)
    IN IF new = "NONE" THEN <<payStatus[p], ordStatus[orderId[p]]>>
       ELSE <<new, PassOrderStatus(new)>>

\* C14: whenever a pass is about to take the provider's answer for a payment,
\* for each of SUCCESSFUL, FAILED and PENDING the pass and the webhook handler
\* would leave the same payment status and the same order status.
C14_SameTransitionFunction ==
    \A t \in Sources :
        rc[t].pc = "poll"
        => \A st \in {"SUCCESSFUL", "FAILED", "PENDING"} :
               WebhookResult(CurPayment(t), st) = ReconcileResult(CurPayment(t), st)

\* C15: a request whose signature header is present and does not validate
\* against the payload is answered 401: the handler issues no lookup of
\* payments, and from the request to the end of the handler nothing in the
\* ledger changes.
C15_InvalidSignatureRejected ==
    [][\A h \in Handlers :
        LET request == wh'[h]
            Invalid == /\ request.signature # <<>>
                       /\ request.signature # Hmac(CallbackSecret, request.payload)
        IN /\ (wh[h].pc = "idle" /\ request.pc # "idle" /\ request.payload # <<>> /\ Invalid)
                 => (request.pc = "sent401" /\ request.pay = 0 /\ UNCHANGED ledger)
           /\ (wh[h].pc = "sent401" /\ wh'[h] # wh[h])
                 => (wh'[h] = IdleHandler /\ UNCHANGED ledger)]_vars

\* A request has been answered 401 while a PENDING payment is stored.
C15_Witness ==
    \E h \in Handlers :
        /\ wh[h].pc = "sent401"
        /\ wh[h].signature = Hmac(CallbackSecret + 1, wh[h].payload)
        /\ \E p \in Payments : payStatus[p] = "PENDING" /\ provRef[p] = wh[h].payload[1]

\* C16: when neither the notification's referenceId nor its externalId matches
\* a stored payment, the handler answers 404: it selects no payment, and from
\* the lookups to the end of the handler nothing in the ledger changes.
C16_UncorrelatedWebhook404 ==
    [][\A h \in Handlers :
        LET Stored == {p \in Payments : payStatus[p] # "NONE"}
            NoReference == \A p \in Stored : provRef[p] # wh[h].providerReference
            NoExternalId == \A p \in Stored : ExternalId(p) # wh[h].externalId
        IN /\ \A key \in {0, CallbackSecret}, st \in WebhookStatuses :
                 WebhookRequest(h, key, 0, 0, st)
                     => (wh'[h].pc = "sent404" /\ wh'[h].pay = 0 /\ UNCHANGED ledger)
           /\ (NoReference /\ WebhookFindByReference(h))
                 => /\ wh'[h].pc = IF wh[h].externalId # 0 THEN "byExt" ELSE "sent404"
                    /\ wh'[h].pay = 0
                    /\ UNCHANGED ledger
           /\ (NoExternalId /\ WebhookFindByExternalId(h))
                 => (wh'[h].pc = "sent404" /\ wh'[h].pay = 0 /\ UNCHANGED ledger)
           /\ (wh[h].pc = "sent404" /\ wh'[h] # wh[h])
                 => (wh'[h] = IdleHandler /\ UNCHANGED ledger)]_vars

\* A notification has been answered 404 while a PENDING payment is stored.
C16_Witness ==
    \E h \in Handlers :
        /\ wh[h].pc = "sent404"
        /\ \E p \in Payments : payStatus[p] = "PENDING" /\ ordStatus[orderId[p]] = "PENDING"

\* C17: the batch a pass fetches holds exactly the payments that are PENDING
\* at the fetch; the pass polls and writes only while it stands on a payment
\* of its batch (with an empty batch: no provider call, no write); and every
\* update of a stored payment's or order's status is the write of a pass
\* standing on a payment of its batch, respectively on that payment's order.
C17_PassTouchesOnlyFetchedPending ==
    [][\A t \in Sources :
        LET Batch(r) == {r.pending[i] : i \in 1..Len(r.pending)}
        IN /\ PassFetchOk(t)
                => /\ Batch(rc'[t]) = {p \in Payments : payStatus[p] = "PENDING"}
                   /\ Len(rc'[t].pending) = Cardinality(Batch(rc'[t]))
                   /\ UNCHANGED ledger
           /\ rc'[t].pc \in {"poll", "updPay", "updOrd"}
                => rc'[t].idx \in 1..Len(rc'[t].pending)
           /\ (rc[t].pc = "check" /\ rc[t].pending = <<>> /\ rc'[t] # rc[t])
                => (rc'[t].pc = "idle" /\ UNCHANGED ledger)
           /\ (rc[t].pc \notin {"idle", "fetch"} /\ rc'[t].pc # "idle")
                => rc'[t].pending = rc[t].pending
           /\ \A p \in Payments :
                 (payStatus[p] # "NONE" /\ payStatus'[p] # payStatus[p])
                     => \E u \in Sources : rc[u].pc = "updPay" /\ CurPayment(u) = p
                                           /\ p \in Batch(rc[u])
           /\ \A o \in Payments :
                 (ordStatus[o] # "NONE" /\ ordStatus'[o] # ordStatus[o])
                     => \E u \in Sources : rc[u].pc = "updOrd" /\ orderId[CurPayment(u)] = o
                                           /\ CurPayment(u) \in Batch(rc[u])]_vars

\* A pass whose batch is payment 1 alone has resolved it and written its
\* order, while payment 2, inserted after the fetch, is still PENDING.
C17_Witness ==
    \E t \in Sources :
        /\ rc[t].pc = "check"
        /\ rc[t].pending = <<1>>
        /\ rc[t].idx = 2
        /\ payStatus[1] = "SUCCESS" /\ ordStatus[orderId[1]] = "PAID"
        /\ payStatus[2] = "PENDING" /\ ordStatus[orderId[2]] = "PENDING"

C19_OrderAndPaymentAtomic ==
    \A o \in Payments :
        (ordStatus[o] # "NONE" /\ co # o)
            => \E p \in Payments : payStatus[p] # "NONE" /\ orderId[p] = o

\* C20: no order owns more than one payment whose status is PENDING.
C20_OnePendingPaymentPerOrder ==
    \A o \in Payments :
        Cardinality({p \in Payments : payStatus[p] = "PENDING" /\ orderId[p] = o}) <= 1

\* Two checkouts have gone through: two PENDING payments, each on its own order.
C20_Witness ==
    /\ payStatus[1] = "PENDING" /\ payStatus[2] = "PENDING"
    /\ orderId[1] # orderId[2]
    /\ ordStatus[orderId[1]] = "PENDING" /\ ordStatus[orderId[2]] = "PENDING"

\* '0' followed by nine digits.
NationalForm(s) ==
    /\ Len(s) = 1 + SubscriberDigits
    /\ s[1] = "0"
    /\ \A i \in 2..Len(s) : s[i] \in DigitChars

\* '+233' followed by nine digits.
InternationalForm(s) ==
    /\ Len(s) = 4 + SubscriberDigits
    /\ <<s[1], s[2], s[3], s[4]>> = <<"+", "2", "3", "3">>
    /\ \A i \in 5..Len(s) : s[i] \in DigitChars

LastDigits(s) == SubSeq(s, Len(s) - SubscriberDigits + 1, Len(s))

\* C23: formatPhoneNumber accepts exactly '+233' or '0' followed by nine
\* digits and throws for everything else; the result is '+233' followed by
\* the nine digits given, which formatPhoneNumber maps to itself, and which is
\* also the result for the same nine digits in the other form.
C23_PhoneNormalization ==
    call.fn = "formatPhoneNumber" =>
        LET phone == call.phone
            r == call.result
        IN /\ r.threw = ~(NationalForm(phone) \/ InternationalForm(phone))
           /\ ~r.threw =>
                 /\ r.value = <<"+", "2", "3", "3">> \o LastDigits(phone)
                 /\ InternationalForm(r.value)
                 /\ FormatPhoneNumber(r.value) = r
                 /\ FormatPhoneNumber(<<"0">> \o LastDigits(phone)) = r

\* A number in national form has been normalized.
C23_Witness ==
    /\ call.fn = "formatPhoneNumber"
    /\ NationalForm(call.phone)
    /\ ~call.result.threw
    /\ call.result.value # call.phone

\* C24: validateWebhookSignature never throws; it answers true when the
\* signature is the hex HMAC-SHA256 of the payload under the configured
\* secret, and false for every other signature and whenever the signature or
\* the secret is absent.
C24_SignatureValidation ==
    call.fn = "validateWebhookSignature" =>
        /\ ~call.result.threw
        /\ call.result.value =
              (/\ call.secret # 0
               /\ call.signature # <<>>
               /\ LowerCase(call.signature) = Hmac(call.secret, call.payload))

\* The collection request reached the provider and was answered.
CollectionAnswered(c) ==
    c.auth = "token" /\ PhoneRegex(c.phone) /\ ~c.response.threw

\* C26 as stated: success exactly on HTTP 202; any other response gives
\* success = false with a reason and the generated reference id, without an
\* exception; transport and authentication failures reach the caller as
\* exceptions.
C26_FailuresPropagate ==
    call.fn = "initiateCollection" =>
        /\ call.result.success = (CollectionAnswered(call) /\ call.response.status = 202)
        /\ (CollectionAnswered(call) /\ call.response.status # 202 /\ call.response.body)
              => (/\ ~call.result.threw
                  /\ ~call.result.success
                  /\ call.result.error # "none"
                  /\ call.result.referenceId = call.uuid)
        /\ (call.auth = "throws" \/ (PhoneRegex(call.phone) /\ call.response.threw))
              => call.result.threw

\* C26 (amended): initiateCollection never throws. success is true exactly when
\* the request is answered with HTTP 202, and then the generated reference id
\* is returned; another answer whose body can be read gives success = false
\* with a reason and the generated reference id; an authentication, validation
\* or transport failure gives success = false with a reason and an empty
\* reference id.
C26_FailuresReturned ==
    call.fn = "initiateCollection" =>
        /\ ~call.result.threw
        /\ call.result.success = (CollectionAnswered(call) /\ call.response.status = 202)
        /\ call.result.success => (call.result.referenceId = call.uuid)
        /\ (CollectionAnswered(call) /\ call.response.status # 202 /\ call.response.body)
              => (/\ ~call.result.success
                  /\ call.result.error # "none"
                  /\ call.result.referenceId = call.uuid)
        /\ ~CollectionAnswered(call)
              => (/\ ~call.result.success
                  /\ call.result.error # "none"
                  /\ call.result.referenceId = 0)

\* A collection whose authentication failed has returned its result.
C26_Witness ==
    /\ call.fn = "initiateCollection"
    /\ call.auth = "throws"
    /\ ~call.result.threw
    /\ ~call.result.success

\* C27: checkPaymentStatus never throws; when the poll succeeds it returns the
\* provider's status with its reason and transaction id, and on a transport,
\* HTTP or authentication failure it returns status FAILED with a reason.
C27_CheckStatusNeverThrows ==
    call.fn = "checkPaymentStatus" =>
        /\ ~call.result.threw
        /\ IF call.auth = "token" /\ ~call.response.threw /\ call.response.ok
                /\ call.response.body
           THEN /\ call.result.status = call.response.status
                /\ call.result.reason = StatusReason(call.response)
                /\ call.result.financialTransactionId = StatusTransactionId(call.response)
           ELSE /\ call.result.status = "FAILED"
                /\ call.result.reason = "Status check failed"

\* A status check whose request failed in transport has returned.
C27_Witness ==
    /\ call.fn = "checkPaymentStatus"
    /\ call.auth = "token"
    /\ call.response.threw
    /\ call.result.status = "FAILED"

\* The orders and the payments recorded.
OrdersRecorded == {o \in Payments : ordStatus[o] # "NONE"}

PaymentsRecorded == {p \in Payments : payStatus[p] # "NONE"}

\* C21: the customer opens the checkout once; whatever texts follow (the phone
\* number sent again, a retry after a slow answer), at most one collection
\* request is accepted and turned into an Order, and at most one Payment is
\* recorded.
C21_AtMostOneCharge ==
    /\ Cardinality(OrdersRecorded) <= 1
    /\ Cardinality(PaymentsRecorded) <= 1

\* The text is a phone number in neither accepted form.
InvalidPhoneText(text) == ~(NationalForm(Trim(text)) \/ InternationalForm(Trim(text)))

\* C25: a text that is not a phone number in an accepted form, received at the
\* phone step of the checkout or with no checkout open, causes no provider
\* call, creates no Order and no Payment, and leaves the session where it
\* was (at the phone step).
C25_InvalidPhoneNoEffect ==
    [][\A text \in ChatTexts :
          (session.step \in {"phone", "none"} /\ InvalidPhoneText(text) /\ ChatText(text))
              => UNCHANGED <<ledger, collecting, co, requested, handling, session>>]_vars

\* A number with a digit too many has been received at the phone step.
C25_Witness ==
    /\ session.step = "phone"
    /\ received # <<>>
    /\ InvalidPhoneText(received)
    /\ AllDigits(received)
    /\ requested = 0

\* C22: every key generateIdempotencyKey returns differs from all it returned
\* before, and no two rows of payments share an idempotency key or an
\* external id, checkouts of one chat included.
C22_UniquePaymentIdentity ==
    /\ \A i, j \in 1..Len(issuedKeys) : i # j => issuedKeys[i] # issuedKeys[j]
    /\ \A row \in BagToSet(paymentRows) : CopiesIn(row, paymentRows) = 1
    /\ \A row, other \in BagToSet(paymentRows) :
          row # other => /\ row.idempotencyKey # other.idempotencyKey
                         /\ row.externalId # other.externalId

\* Two payments of one chat are recorded, and two keys were generated for one
\* order id.
C22_Witness ==
    /\ \E row, other \in BagToSet(paymentRows) :
          row # other /\ row.externalId[3] = other.externalId[3]
    /\ \E i, j \in 1..Len(issuedKeys) : i # j /\ issuedKeys[i][2] = issuedKeys[j][2]

\* C30: every answer of getStatus has isRunning true exactly while a pass is
\* executing, and, once a pass has run, lastRun equal to the time of the most
\* recent pass (so that it does not change between passes).
C30_StatusReportsLatestPass ==
    [][statusReply' # statusReply =>
          /\ statusReply'.isRunning = (\E t \in Sources : Active(t))
          /\ lastRunAt >= 0 => statusReply'.lastRun = lastRunAt]_vars

\* C29: every createOrder call creates its order, also when calls interleave,
\* and no two rows of orders share an order number.
C29_ConcurrentOrdersCreated ==
    /\ \A c \in Callers : creating[c].pc # "threw"
    /\ \A orderNumber \in BagToSet(orderRows) : CopiesIn(orderNumber, orderRows) = 1

\* The token request of r is answered from the cache, without a request to the
\* provider.
AnsweredFromCache(r) ==
    /\ auths'[r] = "idle"
    /\ tokenReply' = [to |-> r, threw |-> FALSE, token |-> cachedToken]
    /\ UNCHANGED <<cachedToken, tokenExpiry, tokensIssued>>

\* C28: the first token request after refreshCredentials goes to the
\* provider; otherwise, after a successful authentication at time a that
\* reported TTL, a request strictly before a + TTL - 300 s is answered with
\* the cached token without contacting the provider, and a request at or
\* after that instant goes to the provider; the authentication that follows
\* replaces the cached token and its expiry.
C28_TokenCache ==
    [][/\ \A r \in Requesters :
             GetAuthToken(r) =>
                 IF afterRefresh THEN auths'[r] = "fetching"
                 ELSE IF lastAuth = NoAuth THEN TRUE
                 ELSE IF now < lastAuth.at + lastAuth.ttl - RefreshMarginMinutes
                 THEN AnsweredFromCache(r)
                 ELSE auths'[r] = "fetching"
       /\ \A r \in Requesters, ttl \in TokenTtls :
             AuthTokenOk(r, ttl) =>
                 /\ cachedToken' # cachedToken
                 /\ cachedToken' = tokenReply'.token
                 /\ tokenExpiry' = now + ttl - RefreshMarginMinutes]_vars

\* C31: a forced run whose pass fails as a whole (fetching the pending
\* payments throws) answers success: false; success: true is answered only
\* for a pass that ran through its batch.
C31_ForceReportsBatchFailure ==
    [][(rc["force"].pc = "fetch" /\ rc'["force"].pc = "idle")
          => trigLog' # "force_success"]_vars

\* C32: once a payment holds a terminal status, its order ends up PAID or
\* CANCELLED, by the end of the pass that wrote the payment or of a later
\* one, also when the order update of that pass throws.
C32_CascadeSurvivesFailure ==
    \A p \in Payments :
        (payStatus[p] \in TerminalStatus)
            ~> (orderId[p] # 0 /\ ordStatus[orderId[p]] \in {"PAID", "CANCELLED"})

\* C33: every pass that ends, also one whose fetch or whose per-payment step
\* threw, releases the guard; and with the guard released, a forced run and a
\* cron tick that is due each start a pass.
C33_GuardReleased ==
    [][/\ \A t \in Sources : (Active(t) /\ rc'[t].pc = "idle") => ~isRunning'
       /\ (~isRunning /\ ForceReconciliation) => (isRunning' /\ rc'["force"].pc = "fetch")
       /\ (~isRunning /\ CronDue /\ Tick) => (isRunning' /\ rc'["cron"].pc = "fetch")]_vars

\* A forced run has started a pass after an earlier pass, in which the order
\* update of a payment threw, had ended.
C33_Witness ==
    /\ isRunning
    /\ rc["force"].pc = "fetch"
    /\ \E p \in Payments : payStatus[p] \in TerminalStatus /\ ordStatus[orderId[p]] = "PENDING"

\* The request handler h works on came without signature header.
Unsigned(r) == r.payload # <<>> /\ r.signature = <<>>

\* C34: a request without signature header is never answered 401; it goes to
\* the lookups a validly signed request with the same body goes to, and when
\* it reports SUCCESSFUL and has been correlated to a payment, its payment
\* write stores SUCCESS and its order write stores PAID.
C34_UnsignedWebhookProcessed ==
    [][\A h \in Handlers :
        LET request == wh'[h]
            body == request.payload
        IN /\ (/\ wh[h].pc = "idle" /\ request.pc # "idle" /\ body # <<>>
               /\ request.signature \in {<<>>, Hmac(CallbackSecret, body)})
                 => request.pc = IF body[1] # 0 THEN "byRef"
                                 ELSE IF body[2] # 0 THEN "byExt" ELSE "sent404"
           /\ (Unsigned(wh[h]) /\ wh[h].payload[3] = "SUCCESSFUL" /\ WebhookUpdatePaymentOk(h))
                 => (payStatus'[wh[h].pay] = "SUCCESS" /\ wh'[h].pc = "updOrd")
           /\ (Unsigned(wh[h]) /\ wh[h].payload[3] = "SUCCESSFUL" /\ WebhookUpdateOrderOk(h))
                 => ordStatus'[orderId[wh[h].pay]] = "PAID"]_vars

\* An unsigned SUCCESSFUL notification has set its payment to SUCCESS and is
\* about to write the order, which is still PENDING.
C34_Witness ==
    \E h \in Handlers :
        /\ wh[h].pc = "updOrd"
        /\ Unsigned(wh[h])
        /\ wh[h].payload[3] = "SUCCESSFUL"
        /\ payStatus[wh[h].pay] = "SUCCESS"
        /\ ordStatus[orderId[wh[h].pay]] = "PENDING"

\* C35: the lookup by provider reference comes first: when it matches, the
\* handler works on a payment it matched and never looks at the external id;
\* the lookup by external id is reached only when no payment matched the
\* reference; and the handler's writes change the payment it correlated and
\* that payment's order only.
C35_CorrelationOrder ==
    [][\A h \in Handlers :
        LET byReference == FindByReference(wh[h].payload[1])
        IN /\ (wh[h].pc = "byRef" /\ wh'[h].pc # "byRef")
                 => IF byReference # {}
                    THEN wh'[h].pc = "updPay" /\ wh'[h].pay \in byReference
                    ELSE wh'[h].pc \in {"byExt", "sent404"}
           /\ (wh[h].pc # "byExt" /\ wh'[h].pc = "byExt")
                 => FindByReference(wh'[h].payload[1]) = {}
           /\ WebhookUpdatePaymentOk(h)
                 => /\ \A q \in Payments \ {wh[h].pay} :
                          payStatus'[q] = payStatus[q] /\ provRef'[q] = provRef[q]
                    /\ ordStatus' = ordStatus
           /\ WebhookUpdateOrderOk(h)
                 => /\ \A o \in Payments \ {orderId[wh[h].pay]} : ordStatus'[o] = ordStatus[o]
                    /\ payStatus' = payStatus]_vars

\* The reference of the request matched payment A, its external id matches a
\* different payment B; A has been written and B is as it was inserted.
C35_Witness ==
    \E h \in Handlers, B \in Payments :
        /\ wh[h].pc = "updOrd"
        /\ wh[h].newStatus = "SUCCESS"
        /\ B # wh[h].pay
        /\ provRef[wh[h].pay] = wh[h].payload[1]
        /\ B \in FindByExternalId(wh[h].payload[2])
        /\ payStatus[wh[h].pay] = "SUCCESS"
        /\ payStatus[B] = "PENDING"

\* Payment p is stored, still PENDING and older than the reconciliation timeout.
Overdue(p) == payStatus[p] = "PENDING" /\ Age(p) > TimeoutMinutes

\* C36: the webhook handler never looks at the age of a payment: a lookup that
\* matches an overdue PENDING payment goes on to the payment write, and the
\* payment write of a SUCCESSFUL notification on an overdue PENDING payment
\* stores SUCCESS, after which the order write stores PAID.
C36_WebhookNoTimeoutCutoff ==
    [][\A h \in Handlers :
        /\ (/\ wh[h].pc = "byRef" /\ wh'[h].pc # "byRef"
            /\ \E p \in FindByReference(wh[h].payload[1]) : Overdue(p))
              => wh'[h].pc = "updPay"
        /\ (/\ wh[h].pc = "byExt" /\ wh'[h].pc # "byExt"
            /\ \E p \in FindByExternalId(wh[h].payload[2]) : Overdue(p))
              => wh'[h].pc = "updPay"
        /\ (/\ wh[h].pc = "updPay" /\ wh[h].payload[3] = "SUCCESSFUL"
            /\ Overdue(wh[h].pay) /\ WebhookUpdatePaymentOk(h))
              => (payStatus'[wh[h].pay] = "SUCCESS" /\ wh'[h].pc = "updOrd")
        /\ (/\ wh[h].pc = "updOrd" /\ wh[h].payload[3] = "SUCCESSFUL"
            /\ WebhookUpdateOrderOk(h))
              => ordStatus'[orderId[wh[h].pay]] = "PAID"]_vars

\* A SUCCESSFUL notification has been correlated to a PENDING payment older
\* than the timeout while no pass is running: the payment write is next.
C36_Witness ==
    \E h \in Handlers :
        /\ wh[h].pc = "updPay"
        /\ wh[h].payload[3] = "SUCCESSFUL"
        /\ Overdue(wh[h].pay)
        /\ ~isRunning

\* C37: in the report a pass logs, processed is the number of PENDING payments
\* it fetched, timedOut the number of payments it set to TIMEOUT and updated
\* the number it set to SUCCESS or FAILED, so that updated + timedOut <= processed.
C37_PassCounters ==
    report.logged =>
        /\ report.processed = report.fetched
        /\ report.timedOut = report.setTimeout
        /\ report.updated = report.setResult
        /\ report.updated + report.timedOut <= report.processed

\* The checkouts whose collection request the provider has accepted: the one
\* whose order is inserted and whose payment is about to be, and those whose
\* payment is stored.
Accepted == {p \in Payments : payStatus[p] # "NONE" \/ co = p}

\* The request handler h works on carries the reference id or the external id
\* of the collection request of checkout p.
Carries(r, p) ==
    /\ r.payload # <<>>
    /\ r.payload[1] = ProviderReference(p) \/ r.payload[2] = ExternalId(p)

\* C38: no lookup of the webhook handler ends in the 404 answer when its
\* request carries the reference id or the external id of an accepted
\* collection request, the Payment of which may not be inserted yet.
C38_AcceptedNeverAnswered404 ==
    [][\A h \in Handlers :
        (wh[h].pc \in {"byRef", "byExt"} /\ wh'[h].pc = "sent404")
            => ~\E p \in Accepted : Carries(wh[h], p)]_vars

====
